---- MODULE Spec2Model ----
(***************************************************************************)
(* QuantLLM analysis pipeline: IndicatorAgent, PatternAgent, TrendAgent,   *)
(* RiskAgent and the orchestrator's runPipeline and runAnalysis; two       *)
(* runPipeline calls in flight at once (ConcurrentSpec); runTrendAgent on   *)
(* two bar sequences (TrendSpec); the start-up of server.ts with its       *)
(* ChatService and GeminiService; the analysis routes of the server        *)
(* (ServerSpec); and the dialogue of the ChatService, its messages served  *)
(* one after the other (ChatSpec) or as they arrive (OverlapSpec).         *)
(*                                                                         *)
(* Numbers.  A JavaScript number is a record [nan, v]: nan is TRUE for     *)
(* not-a-number, otherwise v is the value in thousandths (1.0 is 1000).    *)
(* Every arithmetic step of the source is one operator here (FAdd, FMul,   *)
(* FDiv ...), rounded to the nearest thousandth the way binary64 rounds    *)
(* to the nearest double.  Comparisons against not-a-number are false and  *)
(* Math.min / Math.abs propagate it, as in the source.                     *)
(* rho (0.0005) is finer than a thousandth: rho is held in units of 1e-4   *)
(* and takeProfit, its product with rMultiplier, in units of 1e-7.         *)
(***************************************************************************)
EXTENDS Integers, Sequences, FiniteSets, TLC

\* ------------------------------------------------------------------ numbers

\* One unit of value: 1.0 is FP thousandths.
FP == 10 * 10 * 10

NaN == [nan |-> TRUE, v |-> 0]

F(x) == [nan |-> FALSE, v |-> x]

IsNaN(a) == a.nan

Abs(x) == IF x < 0 THEN -x ELSE x

\* Integer quotient n/d rounded to the nearest integer (halves away from zero).
RoundDiv(n, d) ==
  LET q == (2 * Abs(n) + Abs(d)) \div (2 * Abs(d))
  IN IF (n < 0) = (d < 0) THEN q ELSE -q

FAdd(a, b) == IF a.nan \/ b.nan THEN NaN ELSE F(a.v + b.v)

FSub(a, b) == IF a.nan \/ b.nan THEN NaN ELSE F(a.v - b.v)

FMul(a, b) == IF a.nan \/ b.nan THEN NaN ELSE F(RoundDiv(a.v * b.v, FP))

\* x/0 is not finite in the source; no divisor of the model is 0 (every
\* division of the source is guarded), so that case is folded into NaN.
FDiv(a, b) ==
  IF a.nan \/ b.nan \/ b.v = 0 THEN NaN ELSE F(RoundDiv(a.v * FP, b.v))

FGt(a, b) == ~a.nan /\ ~b.nan /\ a.v > b.v

FGe(a, b) == ~a.nan /\ ~b.nan /\ a.v >= b.v

FLt(a, b) == ~a.nan /\ ~b.nan /\ a.v < b.v

FLe(a, b) == ~a.nan /\ ~b.nan /\ a.v <= b.v

\* a === b on numbers: NaN equals nothing.
FEq(a, b) == ~a.nan /\ ~b.nan /\ a.v = b.v

\* Math.min, Math.max, Math.abs: NaN if any argument is NaN.
MathMin(a, b) == IF a.nan \/ b.nan THEN NaN ELSE IF a.v <= b.v THEN a ELSE b

MathMax(a, b) == IF a.nan \/ b.nan THEN NaN ELSE IF a.v >= b.v THEN a ELSE b

MathAbs(a) == IF a.nan THEN NaN ELSE F(Abs(a.v))

\* Math.round: nearest integer, halves towards +infinity.
MathRound(a) ==
  IF a.nan THEN NaN
  ELSE LET fl == IF a.v + (FP \div 2) >= 0
                 THEN (a.v + (FP \div 2)) \div FP
                 ELSE -(((-(a.v + (FP \div 2))) + FP - 1) \div FP)
       IN F(fl * FP)

\* Truthiness of a number in a condition: 0 and NaN are falsy.
Truthy(a) == ~a.nan /\ a.v # 0

\* The guard 1e-9 of the source, smaller than one thousandth: the smallest
\* positive value of the grid stands for it.
Eps == F(1)

\* ------------------------------------------------- src/utils/technical.ts

RECURSIVE emaLoop(_, _, _, _)
emaLoop(values, k, e, i) ==
  IF i > Len(values) THEN e
  ELSE emaLoop(values, k,
               FAdd(FMul(values[i], k), FMul(e, FSub(F(FP), k))), i + 1)

\* ema(values, period)
ema(values, period) ==
  IF Len(values) = 0 THEN NaN
  ELSE LET k == FDiv(F(2 * FP), F((period + 1) * FP))
       IN emaLoop(values, k, values[1], 2)

RECURSIVE rsiLoopSwapped(_, _, _, _)
\* The loop of rsi with the two sums exchanged: rises counted as losses.
rsiLoopSwapped(closes, i, gains, losses) ==
  IF i > Len(closes) THEN [gains |-> gains, losses |-> losses]
  ELSE LET change == FSub(closes[i], closes[i - 1])
       IN IF FGe(change, F(0))
          THEN rsiLoopSwapped(closes, i + 1, gains, FAdd(losses, change))
          ELSE rsiLoopSwapped(closes, i + 1, FSub(gains, change), losses)

RECURSIVE rsiLoop(_, _, _, _)
\* The loop of rsi: [gains, losses] after indices i..Len(closes) (1-based).
rsiLoop(closes, i, gains, losses) ==
  IF i > Len(closes) THEN [gains |-> gains, losses |-> losses]
  ELSE LET change == FSub(closes[i], closes[i - 1])
       IN IF FGe(change, F(0))
          THEN rsiLoop(closes, i + 1, FAdd(gains, change), losses)
          ELSE rsiLoop(closes, i + 1, gains, FSub(losses, change))

\* rsi without its avgLoss === 0 early return.
rsiAvgLossZeroMissing(avgLoss) == FALSE

\* if (avgLoss === 0) return 100
rsiAvgLossZero(avgLoss) == FEq(avgLoss, F(0))

\* rsi returning 100 / (1 + rs), the subtraction from 100 forgotten.
rsiNoComplement(closes, period) ==
  IF Len(closes) < period + 1 THEN NaN
  ELSE LET gl      == rsiLoop(closes, Len(closes) - period + 1, F(0), F(0))
           avgGain == FDiv(gl.gains, F(period * FP))
           avgLoss == FDiv(gl.losses, F(period * FP))
           rs      == FDiv(avgGain, avgLoss)
       IN IF rsiAvgLossZero(avgLoss) THEN F(100 * FP)
          ELSE FDiv(F(100 * FP), FAdd(F(FP), rs))

\* rsi(closes, period)
rsi(closes, period) ==
  IF Len(closes) < period + 1 THEN NaN
  ELSE LET gl      == rsiLoop(closes, Len(closes) - period + 1, F(0), F(0))
           avgGain == FDiv(gl.gains, F(period * FP))
           avgLoss == FDiv(gl.losses, F(period * FP))
           rs      == FDiv(avgGain, avgLoss)
       IN IF rsiAvgLossZero(avgLoss) THEN F(100 * FP)
          ELSE FSub(F(100 * FP), FDiv(F(100 * FP), FAdd(F(FP), rs)))

\* series.slice(-n): the last n elements (all of them when fewer exist).
SliceLast(s, n) ==
  IF Len(s) <= n THEN s ELSE SubSeq(s, Len(s) - n + 1, Len(s))

\* simpleSlope(series, lookback)
simpleSlope(series, lookback) ==
  IF Len(series) < lookback THEN F(0)
  ELSE LET seg == SliceLast(series, lookback)
       IN FDiv(FSub(seg[Len(seg)], seg[1]), MathMax(seg[1], Eps))

\* ------------------------------------------------------------ src/types.ts

\* An optional field that is not set (indicator?, pattern?, trend?, risk?).
Undefined == [tag |-> "undefined"]

Has(o) == o.tag # "undefined"

\* Candle.  high, low and volume are read by no stage and are left out.
Candle(t, o, c) == [time |-> t, open |-> F(o), close |-> F(c)]

\* AgentContext = { candles } as runPipeline and the run*Agent helpers build it.
NewContext(candles) ==
  [candles |-> candles, indicator |-> Undefined, pattern |-> Undefined,
   trend |-> Undefined, risk |-> Undefined]

\* ctx.candles.map(c => c.close)
Closes(ctx) == [i \in 1..Len(ctx.candles) |-> ctx.candles[i].close]

\* --------------------------------------------------------- IndicatorAgent

rsiPeriod == 14

IndicatorRegime(rsiVal) ==
  IF FGe(rsiVal, F(60 * FP)) THEN "Bullish"
  ELSE IF FLe(rsiVal, F(40 * FP)) THEN "Bearish"
  ELSE "Neutral"

\* The ramp reaching 1 at RSI 0 and 100 instead of 20 and 80.
IndicatorConfidenceOver50(rsiVal) ==
  MathMin(F(FP), FDiv(MathAbs(FSub(rsiVal, F(50 * FP))), F(50 * FP)))

IndicatorConfidence(rsiVal) ==
  MathMin(F(FP), FDiv(MathAbs(FSub(rsiVal, F(50 * FP))), F(30 * FP)))

\* IndicatorAgent reporting confidence 0 when RSI is not a number.
IndicatorAgentZeroConfidence(ctx) ==
  LET rsiVal == rsi(Closes(ctx), rsiPeriod)
  IN [tag        |-> "IndicatorOut",
      rsi        |-> rsiVal,
      overbought |-> FGe(rsiVal, F(70 * FP)),
      oversold   |-> FLe(rsiVal, F(30 * FP)),
      regime     |-> IndicatorRegime(rsiVal),
      confidence |-> IF rsiVal.nan THEN F(0) ELSE IndicatorConfidence(rsiVal)]

IndicatorAgent(ctx) ==
  LET rsiVal == rsi(Closes(ctx), rsiPeriod)
  IN [tag        |-> "IndicatorOut",
      rsi        |-> rsiVal,
      overbought |-> FGe(rsiVal, F(70 * FP)),
      oversold   |-> FLe(rsiVal, F(30 * FP)),
      regime     |-> IndicatorRegime(rsiVal),
      confidence |-> IndicatorConfidence(rsiVal)]

\* ----------------------------------------------------------- PatternAgent

PatternOut(p, s) == [tag |-> "PatternOut", pattern |-> p, strength |-> s]

\* A Doji test that accepts only an empty body.
isTinyBodyZeroOnly(bodySize, price) == FEq(bodySize, F(0))

\* bodySize <= 0.001 * price.  The product is finer than a thousandth, so
\* both sides are compared in millionths.
isTinyBody(bodySize, price) ==
  ~bodySize.nan /\ ~price.nan /\ FP * bodySize.v <= price.v

\* The body ratio without its cap at 1.
engulfingStrengthUncapped(lastBody, prevBody) ==
  FDiv(lastBody, FAdd(prevBody, Eps))

\* Math.min(1, lastBody / (prevBody + 1e-9))
engulfingStrength(lastBody, prevBody) ==
  MathMin(F(FP), FDiv(lastBody, FAdd(prevBody, Eps)))

\* PatternAgent guarding only the empty sequence: a single bar is read as
\* both the previous and the last bar.
PatternAgentGuardsEmptyOnly(ctx) ==
  LET cs == ctx.candles
  IN IF Len(cs) < 1 THEN PatternOut("None", F(0))
     ELSE
       LET prev     == cs[IF Len(cs) > 1 THEN Len(cs) - 1 ELSE 1]
           last     == cs[Len(cs)]
           prevBody == MathAbs(FSub(prev.close, prev.open))
           lastBody == MathAbs(FSub(last.close, last.open))
           lastBull == FGt(last.close, last.open)
           lastBear == FLt(last.close, last.open)
           prevBull == FGt(prev.close, prev.open)
           prevBear == FLt(prev.close, prev.open)
           engulfs  ==
             /\ FLe(MathMin(last.open, last.close), MathMin(prev.open, prev.close))
             /\ FGe(MathMax(last.open, last.close), MathMax(prev.open, prev.close))
       IN IF isTinyBody(lastBody, last.close) THEN PatternOut("Doji", F(400))
          ELSE IF lastBull /\ prevBear /\ engulfs
            THEN PatternOut("BullishEngulfing", engulfingStrength(lastBody, prevBody))
          ELSE IF lastBear /\ prevBull /\ engulfs
            THEN PatternOut("BearishEngulfing", engulfingStrength(lastBody, prevBody))
          ELSE PatternOut("None", F(0))

PatternAgent(ctx) ==
  LET cs == ctx.candles
  IN IF Len(cs) < 2 THEN PatternOut("None", F(0))
     ELSE
       LET prev     == cs[Len(cs) - 1]
           last     == cs[Len(cs)]
           prevBody == MathAbs(FSub(prev.close, prev.open))
           lastBody == MathAbs(FSub(last.close, last.open))
           lastBull == FGt(last.close, last.open)
           lastBear == FLt(last.close, last.open)
           prevBull == FGt(prev.close, prev.open)
           prevBear == FLt(prev.close, prev.open)
           engulfs  ==
             /\ FLe(MathMin(last.open, last.close), MathMin(prev.open, prev.close))
             /\ FGe(MathMax(last.open, last.close), MathMax(prev.open, prev.close))
       IN IF isTinyBody(lastBody, last.close) THEN PatternOut("Doji", F(400))
          ELSE IF lastBull /\ prevBear /\ engulfs
            THEN PatternOut("BullishEngulfing", engulfingStrength(lastBody, prevBody))
          ELSE IF lastBear /\ prevBull /\ engulfs
            THEN PatternOut("BearishEngulfing", engulfingStrength(lastBody, prevBody))
          ELSE PatternOut("None", F(0))

\* ------------------------------------------------------------- TrendAgent

fastPeriod == 12

slowPeriod == 26

Max(a, b) == IF a >= b THEN a ELSE b

\* The classification without its 0.1% deadband.
TrendDirectionNoDeadband(emaFast, emaSlow) ==
  IF FGt(emaFast, emaSlow) THEN "Uptrend"
  ELSE IF FLt(emaFast, emaSlow) THEN "Downtrend"
  ELSE "Sideways"

\* emaFast > emaSlow * 1.001, emaFast < emaSlow * 0.999.  The products are
\* finer than a thousandth, so both sides are compared in millionths.
TrendDirection(emaFast, emaSlow) ==
  IF emaFast.nan \/ emaSlow.nan THEN "Sideways"
  ELSE IF FP * emaFast.v > 1001 * emaSlow.v THEN "Uptrend"
  ELSE IF FP * emaFast.v < 999 * emaSlow.v THEN "Downtrend"
  ELSE "Sideways"

TrendStrength(emaFast, emaSlow) ==
  LET emaDivergence ==
        MathAbs(FDiv(FSub(emaFast, emaSlow), MathMax(emaSlow, Eps)))
  IN MathMin(F(FP), FMul(emaDivergence, F(10 * FP)))

\* TrendAgent with both averages taken over the whole close history.
TrendAgentWholeSeries(ctx) ==
  LET closes  == Closes(ctx)
      emaFast == ema(closes, fastPeriod)
      emaSlow == ema(closes, slowPeriod)
  IN [tag     |-> "TrendOut",
      trend   |-> TrendDirection(emaFast, emaSlow),
      emaFast |-> emaFast,
      emaSlow |-> emaSlow,
      slope   |-> simpleSlope(closes, 12),
      strength |-> TrendStrength(emaFast, emaSlow)]

TrendAgent(ctx) ==
  LET closes    == Closes(ctx)
      dataSlice == SliceLast(closes, Max(slowPeriod, fastPeriod))
      emaFast   == ema(dataSlice, fastPeriod)
      emaSlow   == ema(dataSlice, slowPeriod)
  IN [tag      |-> "TrendOut",
      trend    |-> TrendDirection(emaFast, emaSlow),
      emaFast  |-> emaFast,
      emaSlow  |-> emaSlow,
      slope    |-> simpleSlope(closes, 12),
      strength |-> TrendStrength(emaFast, emaSlow)]

\* ---------------------------------------------------------------- strings

Ch(s, i) == SubSeq(s, i, i)

Min(a, b) == IF a <= b THEN a ELSE b

\* s.slice(0, n)
Slice0(s, n) == SubSeq(s, 1, Min(Len(s), n))

WhiteSpace == {" ", "\n", "\t"}

RECURSIVE TrimLeft(_)
TrimLeft(s) ==
  IF Len(s) > 0 /\ Ch(s, 1) \in WhiteSpace THEN TrimLeft(SubSeq(s, 2, Len(s)))
  ELSE s

RECURSIVE TrimRight(_)
TrimRight(s) ==
  IF Len(s) > 0 /\ Ch(s, Len(s)) \in WhiteSpace
  THEN TrimRight(SubSeq(s, 1, Len(s) - 1))
  ELSE s

\* s.trim()
Trim(s) == TrimRight(TrimLeft(s))

Digits == {"0", "1", "2", "3", "4", "5", "6", "7", "8", "9"}

DigitVal(c) ==
  CASE c = "0" -> 0 [] c = "1" -> 1 [] c = "2" -> 2 [] c = "3" -> 3
    [] c = "4" -> 4 [] c = "5" -> 5 [] c = "6" -> 6 [] c = "7" -> 7
    [] c = "8" -> 8 [] c = "9" -> 9

\* The index after the run of digits of s that starts at i.
RECURSIVE DigitsEnd(_, _)
DigitsEnd(s, i) ==
  IF i <= Len(s) /\ Ch(s, i) \in Digits THEN DigitsEnd(s, i + 1) ELSE i

\* The digits s[i..j-1] read as a decimal integer, continuing from acc.
RECURSIVE DigitsValue(_, _, _, _)
DigitsValue(s, i, j, acc) ==
  IF i >= j THEN acc ELSE DigitsValue(s, i + 1, j, 10 * acc + DigitVal(Ch(s, i)))

\* The fraction digits s[i..j-1] in thousandths; digits below the grid
\* (the fourth decimal on) are not representable and are dropped.
FractionValue(s, i, j) ==
  LET d(k) == IF i + k < j THEN DigitVal(Ch(s, i + k)) ELSE 0
  IN 100 * d(0) + 10 * d(1) + d(2)

\* Number.parseFloat: leading white space, an optional sign, digits, an
\* optional fraction; what follows the longest such prefix is ignored; NaN
\* when the prefix holds no digit.  (Exponents and "Infinity" are not in the
\* replies of the model.)
parseFloat(str) ==
  LET s       == TrimLeft(str)
      signed  == Len(s) > 0 /\ Ch(s, 1) \in {"-", "+"}
      neg     == Len(s) > 0 /\ Ch(s, 1) = "-"
      i0      == IF signed THEN 2 ELSE 1
      i1      == DigitsEnd(s, i0)
      hasDot  == i1 <= Len(s) /\ Ch(s, i1) = "."
      f0      == i1 + 1
      f1      == IF hasDot THEN DigitsEnd(s, f0) ELSE f0
      nDigits == (i1 - i0) + (IF hasDot THEN f1 - f0 ELSE 0)
      mag     == DigitsValue(s, i0, i1, 0) * FP
                 + (IF hasDot THEN FractionValue(s, f0, f1) ELSE 0)
  IN IF nDigits = 0 THEN NaN ELSE F(IF neg THEN -mag ELSE mag)

\* -------------------------------------------------------------- RiskAgent

\* rho = 0.0005, in units of 1e-4.
rho == 5

\* const takeProfit = rMultiplier * rho, in units of 1e-7.
TakeProfit(rMultiplier, rhoVal) == rMultiplier.v * rhoVal

\* takeProfit taken from the initial rMultiplier = 1.5, before a strategy ran.
RiskOutOfStaleTakeProfit(rMultiplier, commentary) ==
  [tag         |-> "RiskOut",
   rho         |-> rho,
   rMultiplier |-> rMultiplier,
   takeProfit  |-> TakeProfit(F(1500), rho),
   commentary  |-> commentary]

\* return { rho, rMultiplier, takeProfit, commentary }
RiskOutOf(rMultiplier, commentary) ==
  [tag         |-> "RiskOut",
   rho         |-> rho,
   rMultiplier |-> rMultiplier,
   takeProfit  |-> TakeProfit(rMultiplier, rho),
   commentary  |-> commentary]

\* The multiplier returned as computed, without the clamp.
ClampMultiplierMissing(multiplier) == multiplier

\* Math.min(1.8, Math.max(1.2, multiplier))
ClampMultiplier(multiplier) == MathMin(F(1800), MathMax(F(1200), multiplier))

\* ctx.trend.trend === 'Uptrend' ? 0.05 : -0.05
StrengthAdjustment(ctx) ==
  IF Has(ctx.trend) /\ Truthy(ctx.trend.strength) /\ FGt(ctx.trend.strength, F(600))
  THEN (IF ctx.trend.trend = "Uptrend" THEN F(50) ELSE F(-50))
  ELSE F(0)

\* The heuristic with the trend bias of 0.1 given the size of the pattern
\* bias, 0.05.
getHeuristicRiskMultiplierSmallTrendBias(ctx) ==
  LET m0 == F(1500)
      m1 == IF Has(ctx.indicator) /\ ctx.indicator.regime = "Bullish"
              THEN FAdd(m0, F(150))
            ELSE IF Has(ctx.indicator) /\ ctx.indicator.regime = "Bearish"
              THEN FSub(m0, F(150))
            ELSE m0
      m2 == IF Has(ctx.trend) /\ ctx.trend.trend = "Uptrend"
              THEN FAdd(m1, F(50))
            ELSE IF Has(ctx.trend) /\ ctx.trend.trend = "Downtrend"
              THEN FSub(m1, F(50))
            ELSE m1
      m3 == IF Has(ctx.pattern) /\ ctx.pattern.pattern = "BullishEngulfing"
              THEN FAdd(m2, F(50))
            ELSE IF Has(ctx.pattern) /\ ctx.pattern.pattern = "BearishEngulfing"
              THEN FSub(m2, F(50))
            ELSE m2
      m4 == IF Has(ctx.indicator) /\ Truthy(ctx.indicator.confidence)
               /\ FGt(ctx.indicator.confidence, F(700))
              THEN FAdd(m3, F(50))
            ELSE m3
      m5 == FAdd(m4, StrengthAdjustment(ctx))
  IN ClampMultiplier(m5)

getHeuristicRiskMultiplier(ctx) ==
  LET m0 == F(1500)
      m1 == IF Has(ctx.indicator) /\ ctx.indicator.regime = "Bullish"
              THEN FAdd(m0, F(150))
            ELSE IF Has(ctx.indicator) /\ ctx.indicator.regime = "Bearish"
              THEN FSub(m0, F(150))
            ELSE m0
      m2 == IF Has(ctx.trend) /\ ctx.trend.trend = "Uptrend"
              THEN FAdd(m1, F(100))
            ELSE IF Has(ctx.trend) /\ ctx.trend.trend = "Downtrend"
              THEN FSub(m1, F(100))
            ELSE m1
      m3 == IF Has(ctx.pattern) /\ ctx.pattern.pattern = "BullishEngulfing"
              THEN FAdd(m2, F(50))
            ELSE IF Has(ctx.pattern) /\ ctx.pattern.pattern = "BearishEngulfing"
              THEN FSub(m2, F(50))
            ELSE m2
      m4 == IF Has(ctx.indicator) /\ Truthy(ctx.indicator.confidence)
               /\ FGt(ctx.indicator.confidence, F(700))
              THEN FAdd(m3, F(50))
            ELSE m3
      m5 == FAdd(m4, StrengthAdjustment(ctx))
  IN ClampMultiplier(m5)

\* What an async call settles to: a value, or a thrown error (its String()).
Returns(value) == [threw |-> FALSE, value |-> value, err |-> ""]

Throws(err) == [threw |-> TRUE, value |-> Undefined, err |-> err]

\* The LLM's parsed reply is accepted: not NaN and within [1.2, 1.8].
LLMAccepts(parsed) ==
  ~IsNaN(parsed) /\ FGe(parsed, F(1200)) /\ FLe(parsed, F(1800))

\* Math.round(parsed * 100) / 100
RoundTo2(parsed) == FDiv(MathRound(FMul(parsed, F(100 * FP))), F(100 * FP))

\* An invalid reply answered with the default 1.5 rather than thrown.
getLLMRiskMultiplierDefaulting(outcome) ==
  IF outcome.kind = "throw" THEN Throws(outcome.text)
  ELSE LET raw    == Trim(IF outcome.kind = "content" THEN outcome.text ELSE "")
           parsed == parseFloat(raw)
       IN IF LLMAccepts(parsed) THEN Returns(RoundTo2(parsed))
          ELSE Returns(F(1500))

\* getLLMRiskMultiplier, from the point where the import and the
\* chat.completions.create call settle.  outcome is what they settle to:
\* [kind |-> "throw", text] (either one rejects, text is String(err)),
\* [kind |-> "content", text] (a reply with that content) or
\* [kind |-> "nocontent"] (a reply with no choice, message or content).
getLLMRiskMultiplier(outcome) ==
  IF outcome.kind = "throw" THEN Throws(outcome.text)
  ELSE LET raw    == Trim(IF outcome.kind = "content" THEN outcome.text ELSE "")
           parsed == parseFloat(raw)
       IN IF LLMAccepts(parsed) THEN Returns(RoundTo2(parsed))
          ELSE Throws("Error: Invalid LLM response: " \o raw)

\* RiskAgent when no OPENAI_API_KEY is set: the else branch.
RiskAgentHeuristic(ctx) ==
  Returns(RiskOutOf(getHeuristicRiskMultiplier(ctx),
                    "Heuristic risk selection based on market context."))

\* RiskAgent with no catch: a failure of getLLMRiskMultiplier propagates.
RiskAgentLLMNoCatch(ctx, outcome) ==
  LET r == getLLMRiskMultiplier(outcome)
  IN IF ~r.threw
     THEN Returns(RiskOutOf(r.value,
            "LLM-selected risk multiplier based on market analysis."))
     ELSE Throws(r.err)

\* RiskAgent's try/catch around the awaited getLLMRiskMultiplier.
RiskAgentLLM(ctx, outcome) ==
  LET r == getLLMRiskMultiplier(outcome)
  IN IF ~r.threw
     THEN Returns(RiskOutOf(r.value,
            "LLM-selected risk multiplier based on market analysis."))
     ELSE Returns(RiskOutOf(getHeuristicRiskMultiplier(ctx),
            "LLM fallback to heuristic: " \o Slice0(r.err, 50) \o "..."))

\* ------------------------------------------------------------ orchestrator

RECURSIVE Pow10(_)
Pow10(k) == IF k = 0 THEN 1 ELSE 10 * Pow10(k - 1)

RECURSIVE PadLeft(_, _)
\* str.padStart(width, "0")
PadLeft(str, width) == IF Len(str) >= width THEN str ELSE PadLeft("0" \o str, width)

\* (n / 10^scale).toFixed(d) for an integer n: d decimals, rounded.
ToFixedScaled(n, scale, d) ==
  LET m == IF d >= scale THEN Abs(n) * Pow10(d - scale)
           ELSE RoundDiv(Abs(n), Pow10(scale - d))
  IN (IF n < 0 THEN "-" ELSE "")
       \o ToString(m \div Pow10(d)) \o "." \o PadLeft(ToString(m % Pow10(d)), d)

\* number.toFixed(d)
ToFixed(a, d) == IF a.nan THEN "NaN" ELSE ToFixedScaled(a.v, 3, d)

\* new Date(time * 1000).toISOString(), for the times of the model's bars
\* (seconds within the first day of the epoch).
ToISOString(time) ==
  "1970-01-01T" \o PadLeft(ToString(time \div 3600), 2)
     \o ":" \o PadLeft(ToString((time % 3600) \div 60), 2)
     \o ":" \o PadLeft(ToString(time % 60), 2) \o ".000Z"

NoDataNarrative == "No candle data available"

IncompleteNarrative == "Incomplete analysis - missing agent outputs"

\* The empty bar sequence reported by the incomplete-analysis guard.
generateNarrativeEmptyIsIncomplete(ctx) ==
  IF Len(ctx.candles) = 0 THEN IncompleteNarrative ELSE "Time: ..."

\* generateNarrative(ctx).  The emoji markers are written as their names.
generateNarrative(ctx) ==
  IF ~Has(ctx.indicator) \/ ~Has(ctx.pattern) \/ ~Has(ctx.trend) \/ ~Has(ctx.risk)
    THEN IncompleteNarrative
  ELSE IF Len(ctx.candles) = 0 THEN NoDataNarrative
  ELSE
    LET last     == ctx.candles[Len(ctx.candles)]
        dirEmoji == IF ctx.indicator.regime = "Bullish" THEN ":chart_up:"
                    ELSE IF ctx.indicator.regime = "Bearish" THEN ":chart_down:"
                    ELSE ":minus:"
        timestamp == "Time: " \o ToISOString(last.time)
        indicatorLine ==
          dirEmoji \o " Indicator: RSI=" \o ToFixed(ctx.indicator.rsi, 1)
            \o " (" \o ctx.indicator.regime
            \o (IF ctx.indicator.overbought THEN ", Overbought" ELSE "")
            \o (IF ctx.indicator.oversold THEN ", Oversold" ELSE "")
            \o "); confidence=" \o ToFixed(ctx.indicator.confidence, 2)
        patternLine ==
          ":candle: Pattern: " \o ctx.pattern.pattern
            \o " (strength=" \o ToFixed(ctx.pattern.strength, 2) \o ")"
        trendLine ==
          ":bar_chart: Trend: " \o ctx.trend.trend
            \o " (EMA12=" \o ToFixed(ctx.trend.emaFast, 5)
            \o ", EMA26=" \o ToFixed(ctx.trend.emaSlow, 5)
            \o ", strength=" \o ToFixed(ctx.trend.strength, 2) \o ")"
        riskLine ==
          ":shield: Risk: rho=" \o ToFixedScaled(ctx.risk.rho, 4, 5)
            \o ", r=" \o ToFixed(ctx.risk.rMultiplier, 2)
            \o " => take-profit R=" \o ToFixedScaled(ctx.risk.takeProfit, 7, 5)
            \o " (" \o ctx.risk.commentary \o ")"
    IN timestamp \o "\n" \o indicatorLine \o "\n" \o patternLine
         \o "\n" \o trendLine \o "\n" \o riskLine

\* return { ctx, narrative }
PipelineResult(ctx, narrative) ==
  [tag |-> "PipelineResult", ctx |-> ctx, narrative |-> narrative]

\* countBullishSignals(ctx): the optional chaining reads an absent output
\* as undefined, which equals no label.
countBullishSignals(ctx) ==
  (IF Has(ctx.indicator) /\ ctx.indicator.regime = "Bullish" THEN 1 ELSE 0)
    + (IF Has(ctx.pattern) /\ ctx.pattern.pattern = "BullishEngulfing" THEN 1 ELSE 0)
    + (IF Has(ctx.trend) /\ ctx.trend.trend = "Uptrend" THEN 1 ELSE 0)

countBearishSignals(ctx) ==
  (IF Has(ctx.indicator) /\ ctx.indicator.regime = "Bearish" THEN 1 ELSE 0)
    + (IF Has(ctx.pattern) /\ ctx.pattern.pattern = "BearishEngulfing" THEN 1 ELSE 0)
    + (IF Has(ctx.trend) /\ ctx.trend.trend = "Downtrend" THEN 1 ELSE 0)

\* getOverallSentiment reporting a tie as Bullish.
getOverallSentimentTieIsBullish(ctx) ==
  LET bullish == countBullishSignals(ctx)
      bearish == countBearishSignals(ctx)
  IN IF bullish >= bearish THEN "Bullish"
     ELSE IF bearish > bullish THEN "Bearish"
     ELSE "Neutral"

getOverallSentiment(ctx) ==
  LET bullish == countBullishSignals(ctx)
      bearish == countBearishSignals(ctx)
  IN IF bullish > bearish THEN "Bullish"
     ELSE IF bearish > bullish THEN "Bearish"
     ELSE "Neutral"

\* The object runAnalysis returns; now is new Date().toISOString().
AnalysisResult(ctx, now) ==
  [tag       |-> "AnalysisResult",
   timestamp |-> now,
   indicator |-> ctx.indicator,
   pattern   |-> ctx.pattern,
   trend     |-> ctx.trend,
   risk      |-> ctx.risk,
   summary   |-> [bullishSignals   |-> countBullishSignals(ctx),
                  bearishSignals   |-> countBearishSignals(ctx),
                  overallSentiment |-> getOverallSentiment(ctx)]]

\* ------------------------------------------------------------------ inputs

\* The longest bar sequence of the model.
MaxBars == 16

\* Two-bar (and shorter) sequences: every open and close among these prices
\* (8, 9, 10, 10.01 and 12).
ShortPrices == {8000, 9000, 10000, 10010, 12000}

ShortBars ==
  UNION { { [i \in 1..n |-> Candle(60 * i, oc[i][1], oc[i][2])] :
              oc \in [1..n -> ShortPrices \X ShortPrices] } : n \in 0..2 }

\* Longer sequences, built the way makeSyntheticSeries chains its bars (each
\* bar opens at the previous close, one bar a minute): from 10.0 the close
\* moves by d1 a bar for the first k bars and by d2 a bar after them.
BasePrice == 10 * FP

Deltas == {-300, -100, 0, 100, 300}

ShapeClose(i, k, d1, d2) ==
  BasePrice + d1 * Min(i, k) + d2 * (IF i > k THEN i - k ELSE 0)

ShapeBars(n, k, d1, d2) ==
  [i \in 1..n |->
     Candle(60 * i, ShapeClose(i - 1, k, d1, d2), ShapeClose(i, k, d1, d2))]

LongBars ==
  { ShapeBars(n, k, d1, d2) : n \in 0..MaxBars, k \in 0..MaxBars,
                              d1 \in Deltas, d2 \in Deltas }

BarSequences == ShortBars \cup LongBars

\* Sequences that turn at the end: the close moves by d1 a bar up to the
\* last two bars, by d2 on the bar before the last and by d3 on the last.
ReversalClose(i, n, d1, d2, d3) ==
  BasePrice + d1 * Min(i, n - 2) + (IF i >= n - 1 THEN d2 ELSE 0)
    + (IF i >= n THEN d3 ELSE 0)

ReversalBars ==
  { [i \in 1..MaxBars |->
       Candle(60 * i, ReversalClose(i - 1, MaxBars, d1, d2, d3),
                      ReversalClose(i, MaxBars, d1, d2, d3))] :
      d1 \in Deltas, d2 \in Deltas, d3 \in Deltas }

\* The bar sequences runAnalysis is called with.
AnalysisBars == ShortBars \cup ReversalBars

\* What the clock reads when runAnalysis stamps its result.
ClockReadings == {"2025-10-17T18:09:38.000Z", "2025-10-17T18:09:39.000Z"}

\* The Regime Output of the README's example output: RSI=75.0 (Bullish,
\* Overbought), confidence=0.83.
ReadmeIndicator ==
  [tag |-> "IndicatorOut", rsi |-> F(75 * FP), overbought |-> TRUE,
   oversold |-> FALSE, regime |-> "Bullish", confidence |-> F(830)]

\* Stage outputs handed straight to runRiskAgent(indicator?, pattern?, trend?).
GivenIndicators ==
  { [tag |-> "IndicatorOut", rsi |-> NaN, overbought |-> FALSE,
     oversold |-> FALSE, regime |-> r, confidence |-> c] :
      r \in {"Bullish", "Bearish", "Neutral"},
      c \in {NaN, F(0), F(700), F(701), F(1000)} }
    \cup {ReadmeIndicator}
    \cup {Undefined}

GivenPatterns ==
  { PatternOut(p, F(400)) :
      p \in {"BullishEngulfing", "BearishEngulfing", "Doji", "None"} }
    \cup {Undefined}

GivenTrends ==
  { [tag |-> "TrendOut", trend |-> t, emaFast |-> F(BasePrice),
     emaSlow |-> F(BasePrice), slope |-> F(0), strength |-> st] :
      t \in {"Uptrend", "Downtrend", "Sideways"},
      st \in {NaN, F(0), F(600), F(601), F(1000)} }
    \cup {Undefined}

\* What the import of the client and chat.completions.create settle to.
LLMOutcomes ==
  { [kind |-> "content", text |-> t] :
      t \in { "1.65", "1.2", "1.8", "1.199", "1.801", "1.654", " 1.7\n",
              "1.5 is a balanced choice", "r = 1.5", "-1.5", "2", "",
              "I cannot determine a multiplier from this context." } }
    \cup { [kind |-> "nocontent", text |-> ""] }
    \cup { [kind |-> "throw", text |-> t] :
             t \in { "Error: Connection error.",
                     "Error: 429 You exceeded your current quota, please check your plan and billing details." } }

\* ------------------------------------------- gemini.ts, chat.ts, server.ts

\* A value of process.env: unset, or a string.
EnvString(text) == [tag |-> "string", text |-> text]

\* !apiKey: unset and the empty string are falsy.
Falsy(v) == ~Has(v) \/ v.text = ""

\* The values GEMINI_API_KEY has when the server is started.
GeminiKeys == {Undefined, EnvString(""), EnvString("AIzaSy-key")}

\* new GeminiService(): config is {} so apiKey is process.env.GEMINI_API_KEY;
\* the constructor throws when it is not set.
GeminiServiceNew(env) ==
  IF Falsy(env.GEMINI_API_KEY)
  THEN Throws("Error: GEMINI_API_KEY is required. Please set your Gemini Pro API key in the environment variables.")
  ELSE Returns([tag |-> "GeminiService", modelId |-> "gemini-1.5-flash"])

\* null
Null == [tag |-> "null"]

\* new ChatService(): the catch logs and rethrows; otherwise the welcome
\* message is the first message.
ChatServiceNew(env) ==
  LET g == GeminiServiceNew(env)
  IN IF g.threw THEN Throws(g.err)
     ELSE Returns([tag             |-> "ChatService",
                   geminiService   |-> g.value,
                   messages        |-> <<"welcome">>,
                   currentCategory |-> Null,
                   selectedAsset   |-> Null,
                   chatState       |-> "welcome"])

\* server.ts before its module body has run: let latestAnalysis = null;
\* let isAnalyzing = false.
NotLoaded ==
  [chatService |-> Undefined, listening |-> FALSE,
   latestAnalysis |-> Null, isAnalyzing |-> FALSE]

\* ------------------------------------------------------------------- state

VARIABLES
  entry,      \* the exported function that was called
  args,       \* its arguments
  useLLM,     \* !!process.env.OPENAI_API_KEY
  pc,         \* where the call is suspended
  ctx,        \* the call's AgentContext
  awaited,    \* what the promise being awaited settles to
  llmCalls,   \* requests made to chat.completions.create
  llmOutcome, \* what the request settled to
  result,     \* the value the call resolved with
  raised,     \* the call rejected
  calls,      \* concurrent runPipeline calls: each call's locals
  contexts,   \* the AgentContext objects those calls created
  server      \* server.ts: its chatService and whether it listens

vars == <<entry, args, useLLM, pc, ctx, awaited, llmCalls, llmOutcome, result,
          raised, calls, contexts, server>>

\* No request has settled.
NoOutcome == [kind |-> "none", text |-> ""]

NoArgs ==
  [candles |-> <<>>, indicator |-> Undefined, pattern |-> Undefined,
   trend |-> Undefined]

\* The exported functions that run the pipeline.
PipelineEntries == {"runPipeline", "runAnalysis"}

Init ==
  /\ \/ /\ entry = "runPipeline"
        /\ \E bars \in BarSequences : args = [NoArgs EXCEPT !.candles = bars]
     \/ /\ entry = "runAnalysis"
        /\ \E bars \in AnalysisBars : args = [NoArgs EXCEPT !.candles = bars]
     \/ /\ entry = "server"
        /\ \E key \in GeminiKeys : args = [env |-> [GEMINI_API_KEY |-> key]]
     \/ /\ entry = "runRiskAgent"
        /\ \E i \in GivenIndicators, p \in GivenPatterns, t \in GivenTrends :
             args = [NoArgs EXCEPT !.indicator = i, !.pattern = p, !.trend = t]
  /\ useLLM \in BOOLEAN
  /\ pc = "start"
  /\ ctx = NewContext(<<>>)
  /\ awaited = Returns(Undefined)
  /\ llmCalls = 0
  /\ llmOutcome = NoOutcome
  /\ result = Undefined
  /\ raised = FALSE
  /\ calls = <<>>
  /\ contexts = <<>>
  /\ server = NotLoaded

\* The call rejects with what the awaited promise rejected with.
Reject ==
  /\ raised' = TRUE
  /\ pc' = "done"
  /\ UNCHANGED <<ctx, awaited, llmCalls, result>>

\* RiskAgent(c) is called: it runs to its return (no key) or to the await of
\* getLLMRiskMultiplier, whose request is then in flight.
CallRiskAgent(c) ==
  IF useLLM
  THEN /\ pc' = "llm"
       /\ llmCalls' = llmCalls + 1
       /\ awaited' = Returns(Undefined)
  ELSE /\ pc' = "risk"
       /\ llmCalls' = llmCalls
       /\ awaited' = RiskAgentHeuristic(c)

\* runPipeline: const ctx = { candles }; ... await IndicatorAgent(ctx)
runPipelineStart ==
  /\ pc = "start" /\ entry \in PipelineEntries
  /\ LET c == NewContext(args.candles)
     IN /\ ctx' = c
        /\ awaited' = Returns(IndicatorAgent(c))
  /\ pc' = "indicator"
  /\ UNCHANGED <<calls, contexts, server, entry, args, useLLM, llmCalls, llmOutcome, result, raised>>

\* ctx.indicator = <awaited>; ... await PatternAgent(ctx)
ResumeAfterIndicator ==
  /\ pc = "indicator"
  /\ IF awaited.threw THEN Reject
     ELSE /\ LET c == [ctx EXCEPT !.indicator = awaited.value]
             IN /\ ctx' = c
                /\ awaited' = Returns(PatternAgent(c))
          /\ pc' = "pattern"
          /\ UNCHANGED <<llmCalls, result, raised>>
  /\ UNCHANGED <<calls, contexts, server, entry, args, useLLM, llmOutcome>>

\* runPipeline with the Trend Stage left out: RiskAgent is started as soon as
\* the pattern is stored.
ResumeAfterPatternStartsRisk ==
  /\ pc = "pattern"
  /\ IF awaited.threw THEN Reject
     ELSE /\ LET c == [ctx EXCEPT !.pattern = awaited.value]
             IN /\ ctx' = c
                /\ CallRiskAgent(c)
          /\ UNCHANGED <<result, raised>>
  /\ UNCHANGED <<calls, contexts, server, entry, args, useLLM, llmOutcome>>

\* ctx.pattern = <awaited>; ... await TrendAgent(ctx)
ResumeAfterPattern ==
  /\ pc = "pattern"
  /\ IF awaited.threw THEN Reject
     ELSE /\ LET c == [ctx EXCEPT !.pattern = awaited.value]
             IN /\ ctx' = c
                /\ awaited' = Returns(TrendAgent(c))
          /\ pc' = "trend"
          /\ UNCHANGED <<llmCalls, result, raised>>
  /\ UNCHANGED <<calls, contexts, server, entry, args, useLLM, llmOutcome>>

\* ctx.trend = <awaited>; ... await RiskAgent(ctx)
ResumeAfterTrend ==
  /\ pc = "trend"
  /\ IF awaited.threw THEN Reject
     ELSE /\ LET c == [ctx EXCEPT !.trend = awaited.value]
             IN /\ ctx' = c
                /\ CallRiskAgent(c)
          /\ UNCHANGED <<result, raised>>
  /\ UNCHANGED <<calls, contexts, server, entry, args, useLLM, llmOutcome>>

\* RiskAgent repeating a failed request once before it falls back.
LLMSettlesRetrying ==
  /\ pc = "llm"
  /\ \E outcome \in LLMOutcomes :
       /\ llmOutcome' = outcome
       /\ IF getLLMRiskMultiplier(outcome).threw /\ llmCalls < 2
          THEN /\ llmCalls' = llmCalls + 1
               /\ pc' = "llm"
               /\ awaited' = awaited
          ELSE /\ llmCalls' = llmCalls
               /\ pc' = "risk"
               /\ awaited' = RiskAgentLLM(ctx, outcome)
  /\ UNCHANGED <<calls, contexts, server, entry, args, useLLM, ctx, result, raised>>

\* The request of getLLMRiskMultiplier settles and RiskAgent runs to its return.
LLMSettles ==
  /\ pc = "llm"
  /\ \E outcome \in LLMOutcomes :
       /\ llmOutcome' = outcome
       /\ awaited' = RiskAgentLLM(ctx, outcome)
  /\ pc' = "risk"
  /\ UNCHANGED <<calls, contexts, server, entry, args, useLLM, ctx, llmCalls, result, raised>>

\* ctx.risk = <awaited>; const narrative = generateNarrative(ctx); return.
\* Called by runAnalysis, the returned value is what runAnalysis awaits.
ResumeAfterRisk ==
  /\ pc = "risk" /\ entry \in PipelineEntries
  /\ IF awaited.threw THEN Reject
     ELSE /\ LET c == [ctx EXCEPT !.risk = awaited.value]
             IN /\ ctx' = c
                /\ IF entry = "runPipeline"
                   THEN /\ result' = PipelineResult(c, generateNarrative(c))
                        /\ pc' = "done"
                        /\ awaited' = awaited
                   ELSE /\ awaited' = Returns(PipelineResult(c, generateNarrative(c)))
                        /\ pc' = "pipeline"
                        /\ result' = result
          /\ UNCHANGED <<llmCalls, raised>>
  /\ UNCHANGED <<calls, contexts, server, entry, args, useLLM, llmOutcome>>

\* runAnalysis: const { ctx } = <awaited>; return { timestamp, ..., summary }
runAnalysisReturn ==
  /\ pc = "pipeline" /\ entry = "runAnalysis"
  /\ IF awaited.threw THEN Reject
     ELSE /\ \E now \in ClockReadings :
               result' = AnalysisResult(awaited.value.ctx, now)
          /\ pc' = "done"
          /\ UNCHANGED <<ctx, awaited, llmCalls, raised>>
  /\ UNCHANGED <<calls, contexts, server, entry, args, useLLM, llmOutcome>>

\* runRiskAgent: return RiskAgent({ candles: [], indicator, pattern, trend })
runRiskAgentStart ==
  /\ pc = "start" /\ entry = "runRiskAgent"
  /\ LET c == [NewContext(<<>>) EXCEPT !.indicator = args.indicator,
                                        !.pattern = args.pattern,
                                        !.trend = args.trend]
     IN /\ ctx' = c
        /\ CallRiskAgent(c)
  /\ UNCHANGED <<calls, contexts, server, entry, args, useLLM, llmOutcome, result, raised>>

\* runRiskAgent resolves with what RiskAgent settled to.
runRiskAgentReturn ==
  /\ pc = "risk" /\ entry = "runRiskAgent"
  /\ IF awaited.threw THEN Reject
     ELSE /\ result' = awaited.value
          /\ pc' = "done"
          /\ UNCHANGED <<ctx, awaited, llmCalls, raised>>
  /\ UNCHANGED <<calls, contexts, server, entry, args, useLLM, llmOutcome>>

\* server.ts is loaded: const chatService = new ChatService() ... app.listen.
\* An exception of the module body ends the process before it listens.
serverStart ==
  /\ pc = "start" /\ entry = "server"
  /\ LET chat == ChatServiceNew(args.env)
     IN IF chat.threw
        THEN /\ raised' = TRUE
             /\ pc' = "done"
             /\ server' = server
        ELSE /\ raised' = raised
             /\ pc' = "listening"
             /\ server' = [server EXCEPT !.chatService = chat.value,
                                         !.listening = TRUE]
  /\ UNCHANGED <<calls, contexts, entry, args, useLLM, ctx, awaited, llmCalls,
                 llmOutcome, result>>

\* GET /api/chat/status
serveChatStatus ==
  /\ pc = "listening" /\ entry = "server"
  /\ result' = [tag           |-> "ChatStatus",
                geminiEnabled |-> TRUE,
                chatState     |-> server.chatService.chatState]
  /\ UNCHANGED <<calls, contexts, server, entry, args, useLLM, pc, ctx, awaited,
                 llmCalls, llmOutcome, raised>>

\* GET /api/chat/messages
serveChatMessages ==
  /\ pc = "listening" /\ entry = "server"
  /\ result' = [tag      |-> "ChatMessages",
                messages |-> server.chatService.messages]
  /\ UNCHANGED <<calls, contexts, server, entry, args, useLLM, pc, ctx, awaited,
                 llmCalls, llmOutcome, raised>>

Next ==
  \/ runPipelineStart
  \/ ResumeAfterIndicator
  \/ ResumeAfterPattern
  \/ ResumeAfterTrend
  \/ LLMSettles
  \/ ResumeAfterRisk
  \/ runAnalysisReturn
  \/ runRiskAgentStart
  \/ runRiskAgentReturn
  \/ serverStart
  \/ serveChatStatus
  \/ serveChatMessages

Spec == Init /\ [][Next]_vars

\* ------------------------------------------------- concurrent pipeline runs

\* Two runPipeline calls in flight at once (one per incoming request), each
\* suspended at its awaits and resumed in any order.
Runs == {1, 2}

\* The bar sequences of the concurrent calls.
ConcurrentBars ==
  { <<>>,
    <<Candle(60, 10000, 10000)>>,
    <<Candle(60, 10000, 9000), Candle(120, 8000, 12000)>>,
    <<Candle(60, 10010, 10000), Candle(120, 10000, 10010)>>,
    ShapeBars(MaxBars, MaxBars, 100, 0),
    ShapeBars(MaxBars, MaxBars, -100, 0),
    ShapeBars(MaxBars, MaxBars - 1, 100, -300) }

\* What the requests of the concurrent calls settle to.
ConcurrentOutcomes ==
  { [kind |-> "content", text |-> "1.65"],
    [kind |-> "content", text |-> "1.2"],
    [kind |-> "content", text |-> "r = 1.5"],
    [kind |-> "throw", text |-> "Error: Connection error."] }

\* A context kept in one module-level object that every call reuses.
CtxSlotShared(r) == 1

\* const ctx: AgentContext = { candles }: a local of the call, so every call
\* has an object of its own.
CtxSlot(r) == r

\* The external-advisory strategy tried whether or not a key is set.
StrategyIsLLMAlways(keySet) == TRUE

\* const useLLM = !!process.env.OPENAI_API_KEY; if (useLLM) ...
StrategyIsLLM(keySet) == keySet

NewCall(bars) ==
  [bars |-> bars, pc |-> "start", awaited |-> Returns(Undefined),
   llmOutcome |-> NoOutcome, result |-> Undefined, raised |-> FALSE]

ConcurrentInit ==
  /\ calls \in [Runs -> {NewCall(bars) : bars \in ConcurrentBars}]
  /\ contexts = [r \in Runs |-> Undefined]
  /\ useLLM \in BOOLEAN
  /\ entry = "runPipeline"
  /\ args = NoArgs
  /\ pc = "start"
  /\ ctx = NewContext(<<>>)
  /\ awaited = Returns(Undefined)
  /\ llmCalls = 0
  /\ llmOutcome = NoOutcome
  /\ result = Undefined
  /\ raised = FALSE
  /\ server = NotLoaded

\* Call r moves to position p awaiting a, its context object now holding c.
Suspend(r, c, p, a) ==
  /\ contexts' = [contexts EXCEPT ![CtxSlot(r)] = c]
  /\ calls' = [calls EXCEPT ![r].pc = p, ![r].awaited = a]

\* Call r rejects with what it awaited.
ConcurrentReject(r) ==
  /\ calls' = [calls EXCEPT ![r].pc = "done", ![r].raised = TRUE]
  /\ contexts' = contexts

\* The variables of the single-call specification, and the environment.
SingleCall ==
  <<entry, args, useLLM, pc, ctx, awaited, llmCalls, llmOutcome, result, raised,
    server>>

\* const ctx = { candles }; ... await IndicatorAgent(ctx)
ConcurrentStart(r) ==
  /\ calls[r].pc = "start"
  /\ LET c == NewContext(calls[r].bars)
     IN Suspend(r, c, "indicator", Returns(IndicatorAgent(c)))
  /\ UNCHANGED SingleCall

\* ctx.indicator = <awaited>; ... await PatternAgent(ctx)
ConcurrentAfterIndicator(r) ==
  /\ calls[r].pc = "indicator"
  /\ IF calls[r].awaited.threw THEN ConcurrentReject(r)
     ELSE LET c == [contexts[CtxSlot(r)] EXCEPT
                      !.indicator = calls[r].awaited.value]
          IN Suspend(r, c, "pattern", Returns(PatternAgent(c)))
  /\ UNCHANGED SingleCall

\* ctx.pattern = <awaited>; ... await TrendAgent(ctx)
ConcurrentAfterPattern(r) ==
  /\ calls[r].pc = "pattern"
  /\ IF calls[r].awaited.threw THEN ConcurrentReject(r)
     ELSE LET c == [contexts[CtxSlot(r)] EXCEPT
                      !.pattern = calls[r].awaited.value]
          IN Suspend(r, c, "trend", Returns(TrendAgent(c)))
  /\ UNCHANGED SingleCall

\* ctx.trend = <awaited>; ... await RiskAgent(ctx)
ConcurrentAfterTrend(r) ==
  /\ calls[r].pc = "trend"
  /\ IF calls[r].awaited.threw THEN ConcurrentReject(r)
     ELSE LET c == [contexts[CtxSlot(r)] EXCEPT
                      !.trend = calls[r].awaited.value]
          IN IF StrategyIsLLM(useLLM)
             THEN Suspend(r, c, "llm", Returns(Undefined))
             ELSE Suspend(r, c, "risk", RiskAgentHeuristic(c))
  /\ UNCHANGED SingleCall

\* The request of call r settles and its RiskAgent runs to its return.
ConcurrentLLMSettles(r) ==
  /\ calls[r].pc = "llm"
  /\ \E outcome \in ConcurrentOutcomes :
       calls' = [calls EXCEPT
                   ![r].pc = "risk",
                   ![r].llmOutcome = outcome,
                   ![r].awaited = RiskAgentLLM(contexts[CtxSlot(r)], outcome)]
  /\ contexts' = contexts
  /\ UNCHANGED SingleCall

\* ctx.risk = <awaited>; const narrative = generateNarrative(ctx); return
ConcurrentAfterRisk(r) ==
  /\ calls[r].pc = "risk"
  /\ IF calls[r].awaited.threw THEN ConcurrentReject(r)
     ELSE LET c == [contexts[CtxSlot(r)] EXCEPT
                      !.risk = calls[r].awaited.value]
          IN /\ contexts' = [contexts EXCEPT ![CtxSlot(r)] = c]
             /\ calls' = [calls EXCEPT
                            ![r].pc = "done",
                            ![r].result = PipelineResult(c, generateNarrative(c))]
  /\ UNCHANGED SingleCall

ConcurrentNext ==
  \E r \in Runs :
    \/ ConcurrentStart(r)
    \/ ConcurrentAfterIndicator(r)
    \/ ConcurrentAfterPattern(r)
    \/ ConcurrentAfterTrend(r)
    \/ ConcurrentLLMSettles(r)
    \/ ConcurrentAfterRisk(r)

ConcurrentSpec == ConcurrentInit /\ [][ConcurrentNext]_vars

\* ---------------------------------------------------------------------
\* runTrendAgent(candles) called on two bar sequences, to compare what the
\* Trend Stage makes of them. A sequence is up to MaxPrefix earlier bars
\* followed by a window of slowPeriod bars (or one fewer) shaped like
\* ShapeBars.
MaxPrefix == 2

PrefixPrices == {5 * FP, 20 * FP}

TrendPrefixes ==
  UNION { [1..n -> PrefixPrices] : n \in 0..MaxPrefix }

TrendWindows ==
  { <<n, d1, d2>> : n \in {slowPeriod - 1, slowPeriod},
                    d1 \in {-100, 100}, d2 \in {-100, 100} }

TrendSeries(prefix, w) ==
  LET p == Len(prefix)
      k == fastPeriod
  IN [i \in 1..(p + w[1]) |->
        IF i <= p THEN Candle(60 * i, prefix[i], prefix[i])
        ELSE Candle(60 * i, ShapeClose(i - p - 1, k, w[2], w[3]),
                            ShapeClose(i - p, k, w[2], w[3]))]

TrendBars == { TrendSeries(prefix, w) : prefix \in TrendPrefixes, w \in TrendWindows }

TrendInit ==
  /\ calls \in [Runs -> {NewCall(bars) : bars \in TrendBars}]
  /\ contexts = [r \in Runs |-> Undefined]
  /\ useLLM = FALSE
  /\ entry = "runTrendAgent"
  /\ args = NoArgs
  /\ pc = "start"
  /\ ctx = NewContext(<<>>)
  /\ awaited = Returns(Undefined)
  /\ llmCalls = 0
  /\ llmOutcome = NoOutcome
  /\ result = Undefined
  /\ raised = FALSE
  /\ server = NotLoaded

\* return TrendAgent({ candles })
runTrendAgentCall(r) ==
  /\ calls[r].pc = "start"
  /\ LET c == NewContext(calls[r].bars)
     IN /\ contexts' = [contexts EXCEPT ![r] = c]
        /\ calls' = [calls EXCEPT ![r].pc = "trend",
                                  ![r].awaited = Returns(TrendAgent(c))]
  /\ UNCHANGED SingleCall

\* The promise of call r resolves with the Trend Output.
runTrendAgentReturn(r) ==
  /\ calls[r].pc = "trend"
  /\ calls' = [calls EXCEPT ![r].pc = "done",
                            ![r].result = calls[r].awaited.value]
  /\ contexts' = contexts
  /\ UNCHANGED SingleCall

TrendNext ==
  \E r \in Runs :
    \/ runTrendAgentCall(r)
    \/ runTrendAgentReturn(r)

TrendSpec == TrendInit /\ [][TrendNext]_vars

\* ---------------------------------------------------------------------
\* chat.ts: the dialogue of the ChatService.

\* A string held where null may be held.
StringValue(text) == [tag |-> "string", text |-> text]

tradingCategories ==
  << [tag |-> "TradingCategory", id |-> "crypto", name |-> "Cryptocurrency",
      markets |-> <<"BTC/USDT", "ETH/USDT", "ADA/USDT", "SOL/USDT", "BNB/USDT",
                    "XRP/USDT", "DOGE/USDT", "MATIC/USDT">>],
     [tag |-> "TradingCategory", id |-> "forex", name |-> "Foreign Exchange",
      markets |-> <<"EUR/USD", "GBP/USD", "USD/JPY", "AUD/USD", "USD/CAD",
                    "NZD/USD", "USD/CHF", "EUR/GBP">>],
     [tag |-> "TradingCategory", id |-> "stocks", name |-> "Stock Market",
      markets |-> <<"AAPL", "GOOGL", "MSFT", "TSLA", "SPY", "AMZN", "NVDA",
                    "META", "NFLX", "AMD">>],
     [tag |-> "TradingCategory", id |-> "commodities", name |-> "Commodities",
      markets |-> <<"GOLD", "CRUDE OIL", "SILVER", "WHEAT", "COPPER",
                    "NATURAL GAS", "CORN", "SOYBEANS">>],
     [tag |-> "TradingCategory", id |-> "indices", name |-> "Market Indices",
      markets |-> <<"S&P 500", "NASDAQ", "DOW", "FTSE 100", "DAX", "NIKKEI",
                    "RUSSELL 2000", "VIX">>] >>

UpperCase == "ABCDEFGHIJKLMNOPQRSTUVWXYZ"

LowerCase == "abcdefghijklmnopqrstuvwxyz"

\* Where c stands in the alphabet a (no place: the empty set).
LetterIndex(a, c) == {i \in 1..Len(a) : Ch(a, i) = c}

\* String.prototype.toLowerCase
RECURSIVE toLowerCase(_)
toLowerCase(s) ==
  IF Len(s) = 0 THEN ""
  ELSE LET c   == Ch(s, 1)
           hit == LetterIndex(UpperCase, c)
       IN (IF hit = {} THEN c ELSE Ch(LowerCase, CHOOSE i \in hit : TRUE))
            \o toLowerCase(SubSeq(s, 2, Len(s)))

\* String.prototype.includes
includes(s, sub) ==
  \E i \in 0..(Len(s) - Len(sub)) : SubSeq(s, i + 1, i + Len(sub)) = sub

\* \w
IsWordChar(c) ==
  \/ c \in Digits
  \/ c = "_"
  \/ LetterIndex(UpperCase, c) # {}
  \/ LetterIndex(LowerCase, c) # {}

\* s.replace(/\W/g, '')
RECURSIVE replaceNonWord(_)
replaceNonWord(s) ==
  IF Len(s) = 0 THEN ""
  ELSE (IF IsWordChar(Ch(s, 1)) THEN Ch(s, 1) ELSE "")
         \o replaceNonWord(SubSeq(s, 2, Len(s)))

\* The least index of a non-empty set of indices.
First(hits) == CHOOSE i \in hits : \A j \in hits : i <= j

\* input.match(/\b(\d+)\b/): where the runs of digits begin that have a
\* word boundary at both ends.
numberMatch(input) ==
  { i \in 1..Len(input) :
      /\ Ch(input, i) \in Digits
      /\ i = 1 \/ ~IsWordChar(Ch(input, i - 1))
      /\ LET j == DigitsEnd(input, i)
         IN j > Len(input) \/ ~IsWordChar(Ch(input, j)) }

\* parseInt(numberMatch[1])
parseInt(input, i) == DigitsValue(input, i, DigitsEnd(input, i), 0)

\* tradingCategories.find(cat => input.includes(cat.id) ||
\* input.includes(cat.name.toLowerCase()) [|| cat.markets.some(...)])
findCategory(input, byMarket) ==
  LET hits == { i \in 1..Len(tradingCategories) :
                  LET cat == tradingCategories[i]
                  IN \/ includes(input, cat.id)
                     \/ includes(input, toLowerCase(cat.name))
                     \/ /\ byMarket
                        /\ \E k \in 1..Len(cat.markets) :
                             includes(input, toLowerCase(cat.markets[k])) }
  IN IF hits = {} THEN Undefined ELSE tradingCategories[First(hits)]

\* this.currentCategory.markets.find(market => ...)
findAsset(markets, input) ==
  LET hits == { k \in 1..Len(markets) :
                  \/ includes(input, toLowerCase(markets[k]))
                  \/ includes(toLowerCase(markets[k]), input)
                  \/ includes(replaceNonWord(input),
                              toLowerCase(replaceNonWord(markets[k]))) }
  IN IF hits = {} THEN Undefined ELSE StringValue(markets[First(hits)])

\* message.trim() of the requests to POST /api/chat/message.
ChatInputs ==
  { "crypto", "Show me FOREX options", "gold", "1", "12", "ETH/USDT", "back",
    "analyze another", "analyze stocks", "start over", "help", "" }

\* input.toLowerCase() of every request, computed once.
lowerInputOf == [userInput \in ChatInputs |-> toLowerCase(userInput)]

LowerInputs == { lowerInputOf[userInput] : userInput \in ChatInputs }

\* The category each lowered input mentions, computed once.
mentionedCategoryOf ==
  [input \in LowerInputs |->
     [byMarket \in BOOLEAN |-> findCategory(input, byMarket)]]

\* The asset of each category each lowered input mentions, computed once.
mentionedAssetOf ==
  [i \in 1..Len(tradingCategories) |->
     [input \in LowerInputs |-> findAsset(tradingCategories[i].markets, input)]]

\* The place of a category in tradingCategories.
CategoryIndex(cat) ==
  CHOOSE i \in 1..Len(tradingCategories) : tradingCategories[i].id = cat.id

\* addMessage(role, content, analysis?)
addMessage(chat, role) == [chat EXCEPT !.messages = Append(@, role)]

\* A handler returns content without awaiting anything.
Reply(chat, content) == [chat |-> chat, next |-> "return", content |-> content]

\* A handler is suspended in an await.
Await(chat, what) == [chat |-> chat, next |-> what, content |-> ""]

\* handleWelcomeState(input)
handleWelcomeState(chat, input) ==
  LET mentionedCategory == mentionedCategoryOf[input][TRUE]
  IN IF Has(mentionedCategory)
     THEN Await([chat EXCEPT !.currentCategory = mentionedCategory,
                             !.chatState = "category_selected"],
                "generateResponse")
     ELSE IF includes(input, "help") \/ includes(input, "what can you do")
     THEN Reply(chat, "help")
     ELSE IF includes(input, "categories") \/ includes(input, "options")
     THEN Reply(chat, "categories")
     ELSE Reply(chat, "choose a category")

\* runAssetAnalysis(), up to its first await
runAssetAnalysis(chat) ==
  IF chat.currentCategory = Null \/ chat.selectedAsset = Null
  THEN Reply(chat, "Error: Missing category or asset information.")
  ELSE Await(chat, "runPipeline")

\* handleAssetSelection(input)
handleAssetSelection(chat, input) ==
  IF chat.currentCategory = Null
  THEN handleWelcomeState([chat EXCEPT !.chatState = "welcome"], input)
  ELSE IF \/ includes(input, "back") \/ includes(input, "change")
          \/ includes(input, "different category")
  THEN Reply([chat EXCEPT !.currentCategory = Null, !.chatState = "welcome"],
             "choose a different category")
  ELSE LET markets == chat.currentCategory.markets
           starts  == numberMatch(input)
           index   == IF starts = {} THEN -1
                      ELSE parseInt(input, First(starts)) - 1
           mentionedAsset ==
             mentionedAssetOf[CategoryIndex(chat.currentCategory)][input]
       IN IF starts # {} /\ index >= 0 /\ index < Len(markets)
          THEN runAssetAnalysis(
                 [chat EXCEPT !.selectedAsset = StringValue(markets[index + 1]),
                              !.chatState = "asset_selected"])
          ELSE IF Has(mentionedAsset)
          THEN runAssetAnalysis(
                 [chat EXCEPT !.selectedAsset = mentionedAsset,
                              !.chatState = "asset_selected"])
          ELSE Reply(chat, "asset not found")

\* handleAnalysisState keeping the analysed asset selected when another
\* asset of the same category is asked for.
handleAnalysisStateKeepsAsset(chat, input) ==
  LET wantsNew == \/ includes(input, "analyze") \/ includes(input, "different")
                  \/ includes(input, "another") \/ includes(input, "new")
      mentionedCategory == mentionedCategoryOf[input][FALSE]
  IN IF wantsNew /\ Has(mentionedCategory)
          /\ mentionedCategory # chat.currentCategory
     THEN Reply([chat EXCEPT !.currentCategory = mentionedCategory,
                             !.selectedAsset = Null,
                             !.chatState = "category_selected"],
                "switching category")
     ELSE IF wantsNew /\ chat.currentCategory # Null
     THEN Reply([chat EXCEPT !.chatState = "category_selected"],
                "choose another asset")
     ELSE IF \/ includes(input, "start over") \/ includes(input, "restart")
             \/ includes(input, "categories")
     THEN handleWelcomeState([chat EXCEPT !.currentCategory = Null,
                                          !.selectedAsset = Null,
                                          !.chatState = "welcome"], input)
     ELSE Reply(chat, "what you can do next")

\* handleAnalysisState(input)
handleAnalysisState(chat, input) ==
  LET wantsNew == \/ includes(input, "analyze") \/ includes(input, "different")
                  \/ includes(input, "another") \/ includes(input, "new")
      mentionedCategory == mentionedCategoryOf[input][FALSE]
  IN IF wantsNew /\ Has(mentionedCategory)
          /\ mentionedCategory # chat.currentCategory
     THEN Reply([chat EXCEPT !.currentCategory = mentionedCategory,
                             !.selectedAsset = Null,
                             !.chatState = "category_selected"],
                "switching category")
     ELSE IF wantsNew /\ chat.currentCategory # Null
     THEN Reply([chat EXCEPT !.selectedAsset = Null,
                             !.chatState = "category_selected"],
                "choose another asset")
     ELSE IF \/ includes(input, "start over") \/ includes(input, "restart")
             \/ includes(input, "categories")
     THEN handleWelcomeState([chat EXCEPT !.currentCategory = Null,
                                          !.selectedAsset = Null,
                                          !.chatState = "welcome"], input)
     ELSE Reply(chat, "what you can do next")

\* generateResponse(input), up to its first await
generateResponse(chat, input) ==
  LET lowerInput == lowerInputOf[input]
  IN IF chat.chatState = "welcome" THEN handleWelcomeState(chat, lowerInput)
     ELSE IF chat.chatState = "category_selected"
     THEN handleAssetSelection(chat, lowerInput)
     ELSE IF chat.chatState \in {"asset_selected", "analysis_complete"}
     THEN handleAnalysisState(chat, lowerInput)
     ELSE handleWelcomeState(chat, lowerInput)

\* ---------------------------------------------------------------------
\* server.ts once it listens: the start-up analysis of the listen callback
\* (request 0) and up to MaxRequests requests to /api/analysis and
\* /api/analysis/fresh. Between two requests the event loop runs every
\* continuation that is ready, so a generateAnalysis call is suspended where
\* another request can be served only while its pipeline waits for the
\* advisory request (OPENAI_API_KEY set).
MaxRequests == 3

StartUp == 0

Requests == 1..MaxRequests

NewRequest == [kind |-> "none", pc |-> "idle", result |-> Undefined]

\* The env of a server that starts.
ServingEnv == [GEMINI_API_KEY |-> EnvString("AIzaSy-key")]

\* latestAnalysis = { timestamp, narrative, data, candles }: the object
\* built by call q.
Analysis(q) == [tag |-> "analysis", madeBy |-> q]

ServerInit ==
  /\ entry = "server"
  /\ args = [env |-> ServingEnv]
  /\ pc = "listening"
  /\ server = [NotLoaded EXCEPT !.chatService = ChatServiceNew(ServingEnv).value,
                                !.listening = TRUE]
  /\ calls = [q \in {StartUp} \cup Requests |-> NewRequest]
  /\ contexts = <<>>
  /\ useLLM \in BOOLEAN
  /\ ctx = NewContext(<<>>)
  /\ awaited = Returns(Undefined)
  /\ llmCalls = 0
  /\ llmOutcome = NoOutcome
  /\ result = Undefined
  /\ raised = FALSE

ServerLocals ==
  <<entry, args, useLLM, pc, ctx, awaited, llmCalls, llmOutcome, result, raised,
    contexts>>

\* generateAnalysis() called by request q of the given kind, the globals
\* being srv: if (isAnalyzing) return latestAnalysis; isAnalyzing = true;
\* ... await runPipeline(candles)
generateAnalysis(q, kind, srv) ==
  IF srv.isAnalyzing
  THEN /\ calls' = [calls EXCEPT ![q] = [kind |-> kind, pc |-> "done",
                                         result |-> srv.latestAnalysis]]
       /\ server' = srv
  ELSE IF useLLM
  THEN /\ calls' = [calls EXCEPT ![q] = [kind |-> kind, pc |-> "runPipeline",
                                         result |-> Undefined]]
       /\ server' = [srv EXCEPT !.isAnalyzing = TRUE]
  ELSE /\ calls' = [calls EXCEPT ![q] = [kind |-> kind, pc |-> "done",
                                         result |-> Analysis(q)]]
       /\ server' = [srv EXCEPT !.latestAnalysis = Analysis(q),
                                !.isAnalyzing = FALSE]

\* app.listen(PORT, () => { ...; generateAnalysis().then(...) })
startUpAnalysis ==
  /\ calls[StartUp].pc = "idle"
  /\ generateAnalysis(StartUp, "startup", server)
  /\ UNCHANGED ServerLocals

\* GET /api/analysis
getAnalysis(q) ==
  /\ calls[StartUp].pc # "idle" /\ calls[q].pc = "idle"
  /\ generateAnalysis(q, "analysis", server)
  /\ UNCHANGED ServerLocals

\* GET /api/analysis/fresh: latestAnalysis = null; await generateAnalysis()
getAnalysisFresh(q) ==
  /\ calls[StartUp].pc # "idle" /\ calls[q].pc = "idle"
  /\ generateAnalysis(q, "fresh", [server EXCEPT !.latestAnalysis = Null])
  /\ UNCHANGED ServerLocals

\* The runPipeline of call q resolves: ... await runAnalysis(candles)
analysisPipelineResolves(q) ==
  /\ calls[q].pc = "runPipeline"
  /\ calls' = [calls EXCEPT ![q].pc = "runAnalysis"]
  /\ server' = server
  /\ UNCHANGED ServerLocals

\* The runAnalysis of call q resolves: latestAnalysis = {...}; return
\* latestAnalysis; finally isAnalyzing = false.
analysisSummaryResolves(q) ==
  /\ calls[q].pc = "runAnalysis"
  /\ calls' = [calls EXCEPT ![q].pc = "done", ![q].result = Analysis(q)]
  /\ server' = [server EXCEPT !.latestAnalysis = Analysis(q),
                              !.isAnalyzing = FALSE]
  /\ UNCHANGED ServerLocals

ServerNext ==
  \/ startUpAnalysis
  \/ \E q \in Requests : getAnalysis(q)
  \/ \E q \in Requests : getAnalysisFresh(q)
  \/ \E q \in {StartUp} \cup Requests : analysisPipelineResolves(q)
  \/ \E q \in {StartUp} \cup Requests : analysisSummaryResolves(q)

ServerSpec == ServerInit /\ [][ServerNext]_vars

\* ---------------------------------------------------------------------
\* POST /api/chat/message and POST /api/chat/clear on the server's one
\* ChatService. A processUserMessage call is suspended, and another request
\* can be served, while it waits for Gemini and, when OPENAI_API_KEY is set,
\* while the pipeline of its analysis waits for the advisory request.
MaxMessages == 9

\* What a Gemini call resolves with: the model's text or the fallback text.
GeminiTexts == {"generated", "fallback"}

NewChatCall ==
  [pc |-> "idle", selected |-> Undefined,
   explained |-> Undefined, result |-> Undefined]

ChatInit ==
  /\ entry = "server"
  /\ args = [env |-> ServingEnv]
  /\ pc = "listening"
  /\ server = [NotLoaded EXCEPT !.chatService = ChatServiceNew(ServingEnv).value,
                                !.listening = TRUE]
  /\ calls = [r \in Runs |-> NewChatCall]
  /\ contexts = <<>>
  /\ useLLM \in BOOLEAN
  /\ ctx = NewContext(<<>>)
  /\ awaited = Returns(Undefined)
  /\ llmCalls = 0
  /\ llmOutcome = NoOutcome
  /\ result = Undefined
  /\ raised = FALSE

\* No processUserMessage call is in flight.
Quiescent == \A r \in DOMAIN calls : calls[r].pc \in {"idle", "done"}

\* const analysis = await this.runAnalysisForAsset(...) has resolved:
\* this.chatState = 'analysis_complete'; ... await
\* this.geminiService.explainAnalysis(analysis.data, this.selectedAsset)
analysisResolved(chat) == [chat EXCEPT !.chatState = "analysis_complete"]

\* processUserMessage(userInput), up to its first suspension
processUserMessage(r, userInput) ==
  /\ calls[r].pc \in {"idle", "done"}
  /\ Len(server.chatService.messages) + 2 <= MaxMessages
  /\ LET h == generateResponse(addMessage(server.chatService, "user"), userInput)
     IN IF h.next = "return"
        THEN /\ server' = [server EXCEPT
                             !.chatService = addMessage(h.chat, "assistant")]
             /\ calls' = [calls EXCEPT ![r] =
                            [NewChatCall EXCEPT !.pc = "done",
                                                !.result = h.content]]
        ELSE IF h.next = "generateResponse"
        THEN /\ server' = [server EXCEPT !.chatService = h.chat]
             /\ calls' = [calls EXCEPT ![r] =
                            [NewChatCall EXCEPT !.pc = "generateResponse"]]
        ELSE IF useLLM
        THEN /\ server' = [server EXCEPT !.chatService = h.chat]
             /\ calls' = [calls EXCEPT ![r] =
                            [NewChatCall EXCEPT !.pc = "runPipeline",
                                                !.selected = h.chat.selectedAsset]]
        ELSE /\ server' = [server EXCEPT !.chatService = analysisResolved(h.chat)]
             /\ calls' = [calls EXCEPT ![r] =
                            [NewChatCall EXCEPT !.pc = "explainAnalysis",
                                                !.selected = h.chat.selectedAsset,
                                                !.explained = h.chat.selectedAsset]]
  /\ UNCHANGED ServerLocals

\* geminiService.generateResponse(...) of handleWelcomeState resolves:
\* return { content: response }
generateResponseResolves(r) ==
  /\ calls[r].pc = "generateResponse"
  /\ \E text \in GeminiTexts :
       calls' = [calls EXCEPT ![r].pc = "done", ![r].result = text]
  /\ server' = [server EXCEPT
                  !.chatService = addMessage(server.chatService, "assistant")]
  /\ UNCHANGED ServerLocals

\* runAnalysisForAsset: await runPipeline(candles) resolves
assetPipelineResolves(r) ==
  /\ calls[r].pc = "runPipeline"
  /\ calls' = [calls EXCEPT ![r].pc = "runAnalysis"]
  /\ server' = server
  /\ UNCHANGED ServerLocals

\* runAnalysisForAsset: await runAnalysis(candles) resolves, and
\* runAssetAnalysis goes on to its explainAnalysis call
assetSummaryResolves(r) ==
  /\ calls[r].pc = "runAnalysis"
  /\ calls' = [calls EXCEPT ![r].pc = "explainAnalysis",
                            ![r].explained = server.chatService.selectedAsset]
  /\ server' = [server EXCEPT
                  !.chatService = analysisResolved(server.chatService)]
  /\ UNCHANGED ServerLocals

\* explainAnalysis(...) resolves: return { content: aiExplanation, analysis }
explainAnalysisResolves(r) ==
  /\ calls[r].pc = "explainAnalysis"
  /\ \E text \in GeminiTexts :
       calls' = [calls EXCEPT ![r].pc = "done", ![r].result = text]
  /\ server' = [server EXCEPT
                  !.chatService = addMessage(server.chatService, "assistant")]
  /\ UNCHANGED ServerLocals

\* clearChat()
clearChat ==
  /\ server' = [server EXCEPT
                  !.chatService = [@ EXCEPT !.messages = <<"welcome">>,
                                            !.currentCategory = Null,
                                            !.selectedAsset = Null,
                                            !.chatState = "welcome"]]
  /\ calls' = calls
  /\ UNCHANGED ServerLocals

\* The calls made one after the other: each completes before the next
\* starts.
ChatNext ==
  \/ \E r \in Runs, userInput \in ChatInputs :
       Quiescent /\ processUserMessage(r, userInput)
  \/ \E r \in Runs : generateResponseResolves(r)
  \/ \E r \in Runs : assetPipelineResolves(r)
  \/ \E r \in Runs : assetSummaryResolves(r)
  \/ \E r \in Runs : explainAnalysisResolves(r)
  \/ Quiescent /\ clearChat

ChatSpec == ChatInit /\ [][ChatNext]_vars

\* The messages served as they arrive: a processUserMessage call may start
\* while another is suspended.
OverlapNext ==
  \/ \E r \in Runs, userInput \in ChatInputs : processUserMessage(r, userInput)
  \/ \E r \in Runs : generateResponseResolves(r)
  \/ \E r \in Runs : assetPipelineResolves(r)
  \/ \E r \in Runs : assetSummaryResolves(r)
  \/ \E r \in Runs : explainAnalysisResolves(r)

OverlapSpec == ChatInit /\ [][OverlapNext]_vars

\* ------------------------------------------------------------------ claims

\* The Risk Outputs a state holds: the one RiskAgent has just returned, the
\* one stored in the context, the one runRiskAgent resolved with.
RiskOutputs ==
  (IF pc = "risk" /\ ~awaited.threw THEN {awaited.value} ELSE {})
    \cup (IF Has(ctx.risk) THEN {ctx.risk} ELSE {})
    \cup (IF result.tag = "RiskOut" THEN {result} ELSE {})

FallbackPrefix == "LLM fallback to heuristic: "

IsFallback(o) == SubSeq(o.commentary, 1, Len(FallbackPrefix)) = FallbackPrefix

\* C1: every Risk Output RiskAgent returns has rMultiplier within [1.2, 1.8],
\* on the heuristic path, the accepted-reply path and the fallback path, for
\* every context (stage outputs absent or present).
C1_RMultiplierInRange ==
  \A o \in RiskOutputs :
    /\ ~o.rMultiplier.nan
    /\ o.rMultiplier.v >= 1200
    /\ o.rMultiplier.v <= 1800

\* The heuristic sum 1.5 + 0.15 + 0.1 + 0.05 + 0.05 + 0.05 = 1.9 is returned
\* as 1.8.
C1_Witness ==
  /\ pc = "risk" /\ ~useLLM /\ ~awaited.threw
  /\ Has(ctx.indicator) /\ ctx.indicator.regime = "Bullish"
  /\ FGt(ctx.indicator.confidence, F(700))
  /\ Has(ctx.trend) /\ ctx.trend.trend = "Uptrend"
  /\ FGt(ctx.trend.strength, F(600))
  /\ Has(ctx.pattern) /\ ctx.pattern.pattern = "BullishEngulfing"
  /\ awaited.value.rMultiplier = F(1800)

\* C2: every Risk Output has rho = 0.0005 (5 units of 1e-4) and takeProfit
\* equal to the product of its own rMultiplier and rho, on all three paths.
C2_TakeProfitIsProduct ==
  \A o \in RiskOutputs :
    /\ o.rho = 5
    /\ o.takeProfit = o.rMultiplier.v * o.rho

\* A fallback output whose multiplier is not the initial 1.5.
C2_Witness ==
  /\ pc = "risk" /\ useLLM /\ ~awaited.threw
  /\ IsFallback(awaited.value)
  /\ awaited.value.rMultiplier = F(1250)
  /\ awaited.value.takeProfit = 6250

\* The external-advisory call failed: it raised, or the trimmed reply does
\* not parse as a number, or the number lies outside [1.2, 1.8].
LLMFailed(o) ==
  \/ o.kind = "throw"
  \/ /\ o.kind \in {"content", "nocontent"}
     /\ LET parsed == parseFloat(Trim(o.text))
        IN parsed.nan \/ parsed.v < 1200 \/ parsed.v > 1800

\* String(err) of that failure.
FailureText(o) ==
  IF o.kind = "throw" THEN o.text
  ELSE "Error: Invalid LLM response: " \o Trim(o.text)

\* C3: with a credential configured, when the external-advisory call fails
\* RiskAgent does not raise; it returns the heuristic multiplier of the same
\* context and a commentary that records the fallback with the failure
\* reason cut to 50 characters.
C3_FailureFallsBackToHeuristic ==
  (useLLM /\ pc \in {"risk", "done"} /\ LLMFailed(llmOutcome)) =>
    /\ ~raised
    /\ pc = "risk" =>
         /\ ~awaited.threw
         /\ awaited.value.rMultiplier = getHeuristicRiskMultiplier(ctx)
         /\ awaited.value.commentary =
              FallbackPrefix \o SubSeq(FailureText(llmOutcome), 1,
                                       Min(50, Len(FailureText(llmOutcome))))
                \o "..."
         /\ Len(awaited.value.commentary) <= Len(FallbackPrefix) + 50 + 3

\* An unparseable reply longer than the cut, on a context whose heuristic
\* value is not the initial 1.5.
C3_Witness ==
  /\ pc = "risk" /\ useLLM /\ ~awaited.threw
  /\ llmOutcome.kind = "content"
  /\ parseFloat(Trim(llmOutcome.text)).nan
  /\ Len(FailureText(llmOutcome)) > 50
  /\ IsFallback(awaited.value)
  /\ Len(awaited.value.commentary) = Len(FallbackPrefix) + 50 + 3
  /\ awaited.value.rMultiplier = F(1800)

\* The awaits a call still has ahead of it.
PcRank ==
  CASE pc = "start" -> 6 [] pc = "indicator" -> 5 [] pc = "pattern" -> 4
    [] pc = "trend" -> 3 [] pc = "llm" -> 2 [] pc = "risk" -> 1
    [] pc = "done" -> 0

\* A runPipeline call is suspended at one of its awaits, and has not raised;
\* once returned, its result holds all four stage outputs and a narrative.
PipelineCompletes ==
  /\ ~raised
  /\ pc \in {"start", "indicator", "pattern", "trend", "llm", "risk", "done"}
  /\ pc = "done" =>
       /\ result.tag = "PipelineResult"
       /\ result.ctx.candles = args.candles
       /\ result.ctx.indicator.tag = "IndicatorOut"
       /\ result.ctx.pattern.tag = "PatternOut"
       /\ result.ctx.trend.tag = "TrendOut"
       /\ result.ctx.risk.tag = "RiskOut"
       /\ Len(result.narrative) > 0

C5_EmptyBarsNoDataNarrative ==
  (entry = "runPipeline" /\ args.candles = <<>>) =>
    /\ ~raised
    /\ pc = "done" =>
         /\ result.tag = "PipelineResult"
         /\ result.narrative = "No candle data available"

C5_Witness ==
  /\ entry = "runPipeline" /\ args.candles = <<>> /\ pc = "done"
  /\ result.tag = "PipelineResult"
  /\ Has(result.ctx.indicator) /\ Has(result.ctx.pattern)
  /\ Has(result.ctx.trend) /\ Has(result.ctx.risk)
  /\ result.narrative = "No candle data available"

InUnitRange(a) == ~a.nan /\ a.v >= 0 /\ a.v <= 1000

\* C6: for every bar sequence of any length the confidence of the Regime
\* Output is a number within [0, 1].
C6_ConfidenceInUnitRange ==
  (entry = "runPipeline" /\ Has(ctx.indicator)) =>
    InUnitRange(ctx.indicator.confidence)

\* C7: for every bar sequence of any length the strength of the Pattern
\* Output and the strength of the Trend Output are numbers within [0, 1].
C7_StrengthsInUnitRange ==
  (entry = "runPipeline") =>
    /\ Has(ctx.pattern) => InUnitRange(ctx.pattern.strength)
    /\ Has(ctx.trend) => InUnitRange(ctx.trend.strength)

StrictlyIncreasing(cl) == \A i \in 2..Len(cl) : cl[i].v > cl[i - 1].v

StrictlyDecreasing(cl) == \A i \in 2..Len(cl) : cl[i].v < cl[i - 1].v

\* The last n closes are all equal.
LastEqual(cl, n) ==
  Len(cl) >= n /\ \A i \in (Len(cl) - n + 1)..Len(cl) : cl[i] = cl[Len(cl)]

\* C8: at least 15 bars with strictly increasing closes give rsi = 100,
\* regime Bullish, overbought and not oversold.
C8_IncreasingClosesAreBullish ==
  (entry = "runPipeline" /\ Has(ctx.indicator) /\ Len(ctx.candles) >= 15
     /\ StrictlyIncreasing(Closes(ctx))) =>
    /\ ctx.indicator.rsi = F(100000)
    /\ ctx.indicator.regime = "Bullish"
    /\ ctx.indicator.overbought
    /\ ~ctx.indicator.oversold

\* Sixteen rising closes, rising faster at the end than at the start.
C8_Witness ==
  /\ entry = "runPipeline" /\ Has(ctx.indicator) /\ Len(ctx.candles) = 16
  /\ StrictlyIncreasing(Closes(ctx))
  /\ ctx.candles[2].close.v - ctx.candles[1].close.v
       < ctx.candles[16].close.v - ctx.candles[15].close.v
  /\ ctx.indicator.rsi = F(100000)
  /\ ctx.indicator.overbought

\* C9: at least 15 bars with strictly decreasing closes give rsi = 0,
\* regime Bearish, oversold and not overbought.
C9_DecreasingClosesAreBearish ==
  (entry = "runPipeline" /\ Has(ctx.indicator) /\ Len(ctx.candles) >= 15
     /\ StrictlyDecreasing(Closes(ctx))) =>
    /\ ctx.indicator.rsi = F(0)
    /\ ctx.indicator.regime = "Bearish"
    /\ ctx.indicator.oversold
    /\ ~ctx.indicator.overbought

\* Fifteen falling closes, falling faster at the start than at the end.
C9_Witness ==
  /\ entry = "runPipeline" /\ Has(ctx.indicator) /\ Len(ctx.candles) = 15
  /\ StrictlyDecreasing(Closes(ctx))
  /\ ctx.candles[1].close.v - ctx.candles[2].close.v
       > ctx.candles[14].close.v - ctx.candles[15].close.v
  /\ ctx.indicator.rsi = F(0)
  /\ ctx.indicator.oversold

\* C10: when the last 15 closes are all equal (a flat market) RSI is
\* computed, not NaN, and is 100 by the avgLoss = 0 rule: regime Bullish,
\* overbought.
C10_FlatClosesAreBullish ==
  (entry = "runPipeline" /\ Has(ctx.indicator) /\ LastEqual(Closes(ctx), 15)) =>
    /\ ~ctx.indicator.rsi.nan
    /\ ctx.indicator.rsi = F(100000)
    /\ ctx.indicator.regime = "Bullish"
    /\ ctx.indicator.overbought

\* Sixteen bars: a fall on the first bar, then fifteen equal closes.
C10_Witness ==
  /\ entry = "runPipeline" /\ Has(ctx.indicator) /\ Len(ctx.candles) = 16
  /\ LastEqual(Closes(ctx), 15)
  /\ ctx.candles[1].open.v > ctx.candles[1].close.v
  /\ ctx.indicator.rsi = F(100000)
  /\ ctx.indicator.regime = "Bullish"

\* The Pattern Outputs a runPipeline state holds: the one PatternAgent has
\* just returned and the one stored in the context.
PatternOutputs ==
  IF entry # "runPipeline" THEN {}
  ELSE (IF pc = "pattern" /\ ~awaited.threw THEN {awaited.value} ELSE {})
         \cup (IF Has(ctx.pattern) THEN {ctx.pattern} ELSE {})

\* C11: for every bar sequence with fewer than 2 bars (empty, or one bar of
\* any open and close) PatternAgent returns pattern None with strength 0 and
\* does not raise.
C11_FewerThanTwoBarsNoPattern ==
  (entry = "runPipeline" /\ Len(args.candles) < 2) =>
    /\ ~raised
    /\ pc = "pattern" => ~awaited.threw
    /\ \A o \in PatternOutputs : o.pattern = "None" /\ o.strength = F(0)

\* A single bar with an empty body (a Doji by its shape) gives None.
C11_Witness ==
  /\ entry = "runPipeline" /\ Len(args.candles) = 1
  /\ args.candles[1].open = args.candles[1].close
  /\ Has(ctx.pattern)
  /\ ctx.pattern = PatternOut("None", F(0))

\* The last two bars of the call, and the shapes the pattern rules read, in
\* exact thousandths.
HasTwoBars == entry = "runPipeline" /\ Len(args.candles) >= 2

PrevBar == args.candles[Len(args.candles) - 1]

LastBar == args.candles[Len(args.candles)]

BodyOf(bar) == Abs(bar.close.v - bar.open.v)

BodyLow(bar) == Min(bar.open.v, bar.close.v)

BodyHigh(bar) == Max(bar.open.v, bar.close.v)

\* |close - open| is at most 0.1% of close.
LastIsTiny == FP * BodyOf(LastBar) <= LastBar.close.v

\* The body range of the last bar contains that of the previous bar.
LastEngulfsPrev ==
  /\ BodyLow(LastBar) <= BodyLow(PrevBar)
  /\ BodyHigh(LastBar) >= BodyHigh(PrevBar)

BullishEngulfingShape ==
  /\ LastBar.close.v > LastBar.open.v
  /\ PrevBar.close.v < PrevBar.open.v
  /\ LastEngulfsPrev

BearishEngulfingShape ==
  /\ LastBar.close.v < LastBar.open.v
  /\ PrevBar.close.v > PrevBar.open.v
  /\ LastEngulfsPrev

\* C12: whenever the body of the last bar is at most 0.1% of its close,
\* PatternAgent returns Doji with strength 0.4, also when the last bar is
\* opposite-coloured to the previous bar and engulfs its body.
C12_DojiBeforeEngulfing ==
  (HasTwoBars /\ LastIsTiny) =>
    \A o \in PatternOutputs : o.pattern = "Doji" /\ o.strength = F(400)

\* A tiny bullish last bar that engulfs a bearish previous bar.
C12_Witness ==
  /\ HasTwoBars /\ LastIsTiny /\ BullishEngulfingShape
  /\ BodyOf(LastBar) > 0
  /\ Has(ctx.pattern)
  /\ ctx.pattern = PatternOut("Doji", F(400))

\* min(1, lastBody / (prevBody + 1e-9)), the guard being one grid unit.
BodyRatioCapped ==
  F(Min(FP, RoundDiv(BodyOf(LastBar) * FP, BodyOf(PrevBar) + 1)))

\* C13: when the last bar is not a Doji, PatternAgent returns
\* BullishEngulfing iff last is bullish, previous is bearish and the last
\* body range contains the previous one; BearishEngulfing iff the
\* colour-mirrored condition holds; in both cases with strength
\* min(1, lastBody/(prevBody+1e-9)); otherwise None with strength 0.
C13_EngulfingRules ==
  (HasTwoBars /\ ~LastIsTiny) =>
    \A o \in PatternOutputs :
      /\ (o.pattern = "BullishEngulfing") <=> BullishEngulfingShape
      /\ (o.pattern = "BearishEngulfing") <=> BearishEngulfingShape
      /\ o.pattern \in {"BullishEngulfing", "BearishEngulfing"} =>
           o.strength = BodyRatioCapped
      /\ ~(BullishEngulfingShape \/ BearishEngulfingShape) =>
           o = PatternOut("None", F(0))

\* prev {open 10, close 9}, last {open 8, close 12}: BullishEngulfing, 1.
C13_Witness ==
  /\ HasTwoBars /\ Len(args.candles) = 2
  /\ PrevBar.open = F(10000) /\ PrevBar.close = F(9000)
  /\ LastBar.open = F(8000) /\ LastBar.close = F(12000)
  /\ Has(ctx.pattern)
  /\ ctx.pattern = PatternOut("BullishEngulfing", F(1000))

\* The Trend Outputs a runPipeline state holds.
TrendOutputs ==
  IF entry # "runPipeline" THEN {}
  ELSE (IF pc = "trend" /\ ~awaited.threw THEN {awaited.value} ELSE {})
         \cup (IF Has(ctx.trend) THEN {ctx.trend} ELSE {})

\* emaFast / emaSlow lies within [0.999, 1.001], bounds included (prices,
\* and so both averages, are positive).
RatioInBand(o) ==
  /\ ~o.emaFast.nan /\ ~o.emaSlow.nan /\ o.emaSlow.v > 0
  /\ 999 * o.emaSlow.v <= FP * o.emaFast.v
  /\ FP * o.emaFast.v <= 1001 * o.emaSlow.v

C17_SingleAttempt ==
  entry \in {"runPipeline", "runAnalysis", "runRiskAgent"} =>
  /\ llmCalls <= 1
  /\ pc \in {"llm", "risk", "pipeline", "done"} =>
       llmCalls = (IF useLLM THEN 1 ELSE 0)
  /\ pc \in {"start", "indicator", "pattern", "trend"} => llmCalls = 0
  /\ (pc = "risk" /\ useLLM /\ LLMFailed(llmOutcome)) =>
       /\ llmCalls = 1
       /\ ~awaited.threw
       /\ IsFallback(awaited.value)
       /\ awaited.value.rMultiplier = getHeuristicRiskMultiplier(ctx)

\* RiskAgent has returned the heuristic value after its one call raised.
C17_Witness ==
  /\ entry = "runRiskAgent" /\ pc = "done" /\ useLLM
  /\ llmOutcome.kind = "throw"
  /\ llmCalls = 1
  /\ result.tag = "RiskOut" /\ IsFallback(result)

\* The stage outputs stored in the context, in pipeline order.
Stored == <<Has(ctx.indicator), Has(ctx.pattern), Has(ctx.trend), Has(ctx.risk)>>

\* C18: runPipeline runs Regime, Pattern, Trend, Risk in that order, each
\* stage started only once the previous output is stored: the Risk Stage
\* runs only with indicator, pattern and trend in the context, and the
\* narrative is rendered only after the risk output is stored.
C18_FixedStageOrder ==
  entry = "runPipeline" =>
    /\ pc \in {"start", "indicator"} => Stored = <<FALSE, FALSE, FALSE, FALSE>>
    /\ pc = "indicator" => awaited.value.tag = "IndicatorOut"
    /\ pc = "pattern" =>
         Stored = <<TRUE, FALSE, FALSE, FALSE>> /\ awaited.value.tag = "PatternOut"
    /\ pc = "trend" =>
         Stored = <<TRUE, TRUE, FALSE, FALSE>> /\ awaited.value.tag = "TrendOut"
    /\ pc \in {"llm", "risk"} => Stored = <<TRUE, TRUE, TRUE, FALSE>>
    /\ pc = "risk" => awaited.value.tag = "RiskOut"
    /\ pc = "done" => Stored = <<TRUE, TRUE, TRUE, TRUE>>
    /\ Has(result) <=> pc = "done"
    /\ Has(result) =>
         /\ result.ctx.risk.tag = "RiskOut"
         /\ result.narrative = generateNarrative(result.ctx)
         /\ result.narrative # IncompleteNarrative

\* The external-advisory call of the Risk Stage is in flight, all three
\* earlier outputs stored: an uptrend that ends in a bearish engulfing bar.
C18_Witness ==
  /\ entry = "runPipeline" /\ pc = "llm"
  /\ Stored = <<TRUE, TRUE, TRUE, FALSE>>
  /\ ctx.pattern.pattern = "BearishEngulfing"
  /\ ctx.trend.trend = "Uptrend"

\* How many of the conditions hold.
CountTrue(conds) == Cardinality({i \in DOMAIN conds : conds[i]})

\* C19: runAnalysis returns a summary whose bullishSignals counts the true
\* conditions among regime = Bullish, pattern = BullishEngulfing, trend =
\* Uptrend, whose bearishSignals counts the mirrored conditions, and whose
\* overallSentiment is Bullish / Bearish for the larger count and Neutral on
\* a tie; both counts are within 0..3.
C19_SummaryCountsSignals ==
  (entry = "runAnalysis" /\ pc = "done" /\ ~raised) =>
    /\ result.tag = "AnalysisResult"
    /\ LET bull == CountTrue(<<result.indicator.regime = "Bullish",
                               result.pattern.pattern = "BullishEngulfing",
                               result.trend.trend = "Uptrend">>)
           bear == CountTrue(<<result.indicator.regime = "Bearish",
                               result.pattern.pattern = "BearishEngulfing",
                               result.trend.trend = "Downtrend">>)
       IN /\ result.summary.bullishSignals = bull
          /\ result.summary.bearishSignals = bear
          /\ bull \in 0..3 /\ bear \in 0..3
          /\ result.summary.overallSentiment =
               (IF bull > bear THEN "Bullish"
                ELSE IF bear > bull THEN "Bearish" ELSE "Neutral")

\* Two bullish signals against one bearish: a rise that ends in a bearish
\* engulfing bar.
C19_Witness ==
  /\ entry = "runAnalysis" /\ pc = "done"
  /\ result.tag = "AnalysisResult"
  /\ result.summary.bullishSignals = 2
  /\ result.summary.bearishSignals = 1
  /\ result.pattern.pattern = "BearishEngulfing"
  /\ result.summary.overallSentiment = "Bullish"

\* Both concurrent calls were given the same bars and have returned.
SameBarsBothDone ==
  /\ calls[1].bars = calls[2].bars
  /\ calls[1].pc = "done" /\ calls[2].pc = "done"
  /\ ~calls[1].raised /\ ~calls[2].raised

\* C15 as stated: two runs on the same bar sequence return identical
\* indicator, pattern, trend and risk outputs and an identical narrative.
C15_RunsOnSameBarsAgree ==
  SameBarsBothDone => calls[1].result = calls[2].result

\* C15, amended: two runs on the same bar sequence return identical
\* indicator, pattern and trend outputs; their risk outputs and narratives
\* are identical when no language-model credential is configured, or when
\* the external service settles both runs' calls in the same way.
C15_RunsAgreeUpToAdvisory ==
  SameBarsBothDone =>
    /\ calls[1].result.ctx.candles = calls[2].result.ctx.candles
    /\ calls[1].result.ctx.indicator = calls[2].result.ctx.indicator
    /\ calls[1].result.ctx.pattern = calls[2].result.ctx.pattern
    /\ calls[1].result.ctx.trend = calls[2].result.ctx.trend
    /\ (~useLLM \/ calls[1].llmOutcome = calls[2].llmOutcome) =>
         /\ calls[1].result.ctx.risk = calls[2].result.ctx.risk
         /\ calls[1].result.narrative = calls[2].result.narrative

\* Two heuristic runs on the same sixteen bars, returned with the same
\* five-line narrative.
C15_Witness ==
  /\ SameBarsBothDone /\ ~useLLM
  /\ Len(calls[1].bars) = MaxBars
  /\ calls[1].result = calls[2].result
  /\ calls[1].result.ctx.risk.rMultiplier # F(1500)
  /\ calls[1].result.narrative # NoDataNarrative

\* What call r holds is what a call on its bars holds when run alone.
OwnOutputsOnly(r) ==
  LET own == NewContext(calls[r].bars)
      c   == contexts[r]
  IN /\ calls[r].pc # "start" =>
          /\ c # Undefined
          /\ c.candles = calls[r].bars
          /\ Has(c.indicator) => c.indicator = IndicatorAgent(own)
          /\ Has(c.pattern) => c.pattern = PatternAgent(own)
          /\ Has(c.trend) => c.trend = TrendAgent(own)
     /\ (calls[r].pc = "done" /\ ~calls[r].raised) =>
          /\ calls[r].result.tag = "PipelineResult"
          /\ calls[r].result.ctx.candles = calls[r].bars
          /\ calls[r].result.ctx.indicator = IndicatorAgent(own)
          /\ calls[r].result.ctx.pattern = PatternAgent(own)
          /\ calls[r].result.ctx.trend = TrendAgent(own)

\* C16: when two runPipeline calls interleave at their suspension points,
\* each call's context holds its own bars and the indicator, pattern and
\* trend outputs of those bars, and a step of one call leaves the other
\* call's context as it was.
C16_RunsDoNotInterfere ==
  /\ [](\A r \in Runs : OwnOutputsOnly(r))
  /\ [][\A r \in Runs : calls'[r] = calls[r] => contexts'[r] = contexts[r]]_vars

\* Both calls suspended in mid-run on different bars, their contexts holding
\* different indicator outputs.
C16_Witness ==
  /\ calls[1].pc = "trend" /\ calls[2].pc = "pattern"
  /\ calls[1].bars # calls[2].bars
  /\ contexts[1] # Undefined /\ contexts[2] # Undefined
  /\ Has(contexts[1].indicator) /\ Has(contexts[2].indicator)
  /\ contexts[1].indicator # contexts[2].indicator
  /\ Has(contexts[1].pattern) /\ ~Has(contexts[2].pattern)

\* C20: with no GEMINI_API_KEY configured the chat service and the server
\* still start, and serve, instead of failing at start-up.
C20_StartsWithoutGeminiKey ==
  (entry = "server" /\ Falsy(args.env.GEMINI_API_KEY) /\ pc # "start") =>
    /\ ~raised
    /\ server.listening
    /\ Has(server.chatService)

\* RiskAgent has just returned the heuristic value for the context ctx.
HeuristicReturned ==
  /\ entry \in {"runPipeline", "runAnalysis", "runRiskAgent"}
  /\ pc = "risk" /\ ~useLLM /\ ~awaited.threw

\* The biases of the heuristic as stated, in thousandths: a for the regime,
\* b for the trend, c for the pattern, d for a confidence above 0.7 (an
\* absent output contributes nothing).
StatedBiases(c) ==
  (IF ~Has(c.indicator) THEN 0
   ELSE IF c.indicator.regime = "Bullish" THEN 150
   ELSE IF c.indicator.regime = "Bearish" THEN -150 ELSE 0)
  + (IF ~Has(c.trend) THEN 0
     ELSE IF c.trend.trend = "Uptrend" THEN 100
     ELSE IF c.trend.trend = "Downtrend" THEN -100 ELSE 0)
  + (IF ~Has(c.pattern) THEN 0
     ELSE IF c.pattern.pattern = "BullishEngulfing" THEN 50
     ELSE IF c.pattern.pattern = "BearishEngulfing" THEN -50 ELSE 0)
  + (IF Has(c.indicator) /\ ~c.indicator.confidence.nan
          /\ c.indicator.confidence.v > 700 THEN 50 ELSE 0)

\* e: +0.05 for Uptrend, -0.05 for Downtrend when trend strength > 0.6.
StatedStrengthBias(c) ==
  IF Has(c.trend) /\ ~c.trend.strength.nan /\ c.trend.strength.v > 600
  THEN (IF c.trend.trend = "Uptrend" THEN 50
        ELSE IF c.trend.trend = "Downtrend" THEN -50 ELSE 0)
  ELSE 0

\* clamp(x, 1.2, 1.8) in thousandths.
ClampStated(x) == Min(1800, Max(1200, x))

C22_StrengthAdjustmentFollowsTrend ==
  (HeuristicReturned /\ Has(ctx.trend) /\ ~ctx.trend.strength.nan
     /\ ctx.trend.strength.v > 600) =>
    LET without == ClampStated(1500 + StatedBiases(ctx))
        r       == awaited.value.rMultiplier.v
    IN /\ r > without => ctx.trend.trend = "Uptrend"
       /\ r < without => ctx.trend.trend = "Downtrend"

\* The rsi of the Regime Output of a run with at least 15 closes.
RegimeOutputOfLongRun ==
  entry \in PipelineEntries /\ Has(ctx.indicator) /\ Len(ctx.candles) >= 15

\* C23: with at least 15 closes, overbought iff rsi >= 70, oversold iff
\* rsi <= 30, regime Bullish iff rsi >= 60, Bearish iff rsi <= 40, Neutral
\* otherwise, confidence = min(1, |rsi - 50| / 30), which is 1 whenever
\* rsi <= 20 or rsi >= 80; overbought implies Bullish, oversold implies
\* Bearish, and the flags are never both true.
C23_FlagsAndRegimeFromRsi ==
  RegimeOutputOfLongRun =>
    LET o == ctx.indicator
        r == o.rsi.v
    IN /\ ~o.rsi.nan /\ r >= 0 /\ r <= 100 * FP
       /\ o.overbought <=> r >= 70 * FP
       /\ o.oversold <=> r <= 30 * FP
       /\ (o.regime = "Bullish") <=> r >= 60 * FP
       /\ (o.regime = "Bearish") <=> r <= 40 * FP
       /\ (o.regime = "Neutral") <=> (r > 40 * FP /\ r < 60 * FP)
       /\ o.confidence = F(Min(FP, RoundDiv(Abs(r - 50 * FP) * FP, 30 * FP)))
       /\ (r <= 20 * FP \/ r >= 80 * FP) => o.confidence = F(FP)
       /\ o.overbought => o.regime = "Bullish"
       /\ o.oversold => o.regime = "Bearish"
       /\ ~(o.overbought /\ o.oversold)

\* An RSI strictly between 60 and 70: Bullish, not overbought, confidence
\* below 1.
C23_Witness ==
  /\ RegimeOutputOfLongRun
  /\ ctx.indicator.rsi.v > 60 * FP /\ ctx.indicator.rsi.v < 70 * FP
  /\ ctx.indicator.regime = "Bullish" /\ ~ctx.indicator.overbought
  /\ ctx.indicator.confidence.v > 0 /\ ctx.indicator.confidence.v < FP

C25_ReadmeExample ==
  (HeuristicReturned
     /\ ctx.indicator = ReadmeIndicator
     /\ Has(ctx.pattern) /\ ctx.pattern.pattern = "Doji"
     /\ Has(ctx.trend) /\ ctx.trend.trend = "Sideways"
     /\ ctx.trend.strength = F(0)) =>
    /\ awaited.value.rMultiplier = F(1650)
    /\ awaited.value.takeProfit = 1650 * 5

\* Both runTrendAgent calls have returned.
BothTrendsReturned ==
  entry = "runTrendAgent" /\ \A r \in Runs : calls[r].pc = "done"

\* The closes of the bars call r was given.
ClosesOf(r) == Closes(NewContext(calls[r].bars))

\* C26: emaFast and emaSlow are computed over the last 26 closes (all of
\* them when fewer exist), so two close sequences that agree on their last
\* 26 closes yield identical emaFast, emaSlow, trend and strength, whatever
\* their earlier closes are.
C26_TrendDependsOnLast26Closes ==
  (BothTrendsReturned
     /\ SliceLast(ClosesOf(1), 26) = SliceLast(ClosesOf(2), 26)) =>
    /\ calls[1].result.emaFast = calls[2].result.emaFast
    /\ calls[1].result.emaSlow = calls[2].result.emaSlow
    /\ calls[1].result.trend = calls[2].result.trend
    /\ calls[1].result.strength = calls[2].result.strength

\* Sequences of 27 and 28 closes with different earlier closes and the same
\* last 26; the fast average is not the one of the last 12 closes alone.
C26_Witness ==
  /\ BothTrendsReturned
  /\ Len(ClosesOf(1)) = 27 /\ Len(ClosesOf(2)) = 28
  /\ ClosesOf(1)[1] # ClosesOf(2)[2]
  /\ SliceLast(ClosesOf(1), 26) = SliceLast(ClosesOf(2), 26)
  /\ calls[1].result = calls[2].result
  /\ calls[1].result.trend = "Downtrend"
  /\ calls[1].result.emaFast # ema(SliceLast(ClosesOf(1), 12), 12)

\* The Trend Outputs of pipeline runs (all closes of the inputs are
\* positive).
PipelineTrendOutputs ==
  IF entry \in PipelineEntries
  THEN (IF pc = "trend" /\ ~awaited.threw THEN {awaited.value} ELSE {})
         \cup (IF Has(ctx.trend) THEN {ctx.trend} ELSE {})
  ELSE {}

\* Within a pipeline run a strength above 0.6 comes with Uptrend or
\* Downtrend only.
AdjustmentOnlyWhenTrending ==
  \A o \in PipelineTrendOutputs :
    (~o.strength.nan /\ o.strength.v > 600) =>
      o.trend \in {"Uptrend", "Downtrend"}

\* C27: for positive closes a Sideways Trend Output has strength <= 0.01
\* and an Uptrend or Downtrend has strength > 0.01; consequently within a
\* pipeline run the strength adjustment is only applied when trend is
\* Uptrend or Downtrend. (The strength is held to the thousandth: a value
\* above 0.01 before rounding is one of at least 0.01 after it.)
C27_SidewaysIffStrengthAtMostOneHundredth ==
  /\ \A o \in PipelineTrendOutputs :
       /\ o.trend = "Sideways" => (~o.strength.nan /\ o.strength.v <= 10)
       /\ o.trend \in {"Uptrend", "Downtrend"} =>
            (~o.strength.nan /\ o.strength.v >= 10)
  /\ AdjustmentOnlyWhenTrending

\* C28: under any interleaving of requests to /api/analysis and
\* /api/analysis/fresh with the start-up analysis, every generateAnalysis
\* call that returns hands its caller a non-null analysis object.
C28_AnalysisNeverNull ==
  entry = "server" =>
    \A q \in DOMAIN calls :
      calls[q].pc = "done" => calls[q].result # Null

\* The dialogue fields of the ChatService agree with its chatState.
DialogueConsistent ==
  LET chat == server.chatService
  IN /\ chat.chatState = "welcome" =>
          (chat.currentCategory = Null /\ chat.selectedAsset = Null)
     /\ chat.chatState = "category_selected" =>
          (chat.currentCategory # Null /\ chat.selectedAsset = Null)
     /\ chat.chatState = "analysis_complete" =>
          (chat.currentCategory # Null /\ chat.selectedAsset # Null)

\* C29: after any sequence of processUserMessage and clearChat calls, each
\* completing before the next starts, welcome implies no category and no
\* asset, category_selected implies a category and no asset,
\* analysis_complete implies both, and chatState is never left at
\* asset_selected.
C29_DialogueStateConsistent ==
  (Has(server.chatService) /\ Quiescent) =>
    /\ DialogueConsistent
    /\ server.chatService.chatState # "asset_selected"

\* An analysis was completed and another asset of the same category asked
\* for: category_selected again, with the category kept and the asset
\* cleared.
C29_Witness ==
  /\ Has(server.chatService) /\ Quiescent
  /\ \E r \in DOMAIN calls :
       calls[r].pc = "done" /\ calls[r].result = "choose another asset"
  /\ server.chatService.chatState = "category_selected"
  /\ server.chatService.currentCategory # Null
  /\ server.chatService.selectedAsset = Null

\* C30: when two processUserMessage calls on the shared ChatService overlap,
\* analysis_complete is never reached with currentCategory or selectedAsset
\* null, and the asset passed to the explanation step is the one the call
\* selected.
C30_OverlapKeepsDialogueConsistent ==
  Has(server.chatService) =>
    /\ server.chatService.chatState = "analysis_complete" =>
         /\ server.chatService.currentCategory # Null
         /\ server.chatService.selectedAsset # Null
    /\ \A r \in DOMAIN calls :
         Has(calls[r].explained) => calls[r].explained = calls[r].selected

====
